---- MODULE Spec2Model ----
(***************************************************************************)
(* Model of the IMAP LIST pattern matcher (crates/imap/src/op/list.rs) and *)
(* of the SEARCH executor with its saved-search slot                       *)
(* (crates/imap/src/op/search.rs).                                         *)
(*                                                                         *)
(* Strings are sequences of one-byte strings: <<"a", "/", "%">>.           *)
(***************************************************************************)
EXTENDS Integers, Sequences, FiniteSets, TLC

VARIABLES
    patterns,       \* matches_pattern: the pattern list of the call
    mailbox_name,   \* matches_pattern: the mailbox name of the call
    match_pc,       \* "call" before matches_pattern runs, "done" after
    match_result,   \* matches_pattern: the returned bool (FALSE before)
    mailbox,        \* SelectedMailbox: id and state (MailboxState)
    saved_search,   \* SelectedMailbox.saved_search, the mutex-guarded slot
    channels,       \* the watch channels created by handle_search, by task
    session,        \* the session task: its position in handle_search
    tasks,          \* the tasks spawned by handle_search, in spawn order
    sink,           \* the responses written to the session's sink
    list_request,   \* handle_list: the LIST or LSUB request of the session
    imap,           \* the server's IMAP settings (self.imap)
    mailboxes,      \* SessionData.mailboxes: the accounts of the namespace
    status_fails,   \* the mailbox names for which SessionData::status fails
    list_pc,        \* the position of handle_list and of the spawned list task
    list_items,     \* list(): the list items built so far
    status_items,   \* list(): the status items built so far
    list_sink,      \* the LIST responses written to the session's sink
    list_calls,     \* the calls handle_list and list() made to other parts
    query_call,     \* query(): the arguments of the call
    query_pc,       \* "call" before query() runs, "done" after
    query_out,      \* query(): what it returned and what it asked the store
    search_call,    \* search(): the arguments of the call
    search_pc,      \* "call" before search() runs, "done" after
    search_out,     \* search(): what it returned
    map_call,       \* map_result_id: the arguments of the call
    map_pc,         \* "call" before map_result_id runs, "done" after
    map_out,        \* map_result_id: the result and the uid resolved back
    ws,             \* handle_websocket_stream: the locals of the handler loop
    ws_out,         \* the last message the handler sent on the stream
    fdb,            \* the bitmap blocks stored in the database, by key
    bitmap_call,    \* get_bitmaps_intersection: the keys of the call
    bitmap_pc,      \* "call" before get_bitmaps_intersection runs, "done" after
    bitmap_out      \* get_bitmaps_intersection: what it returned

matchVars == <<patterns, mailbox_name, match_pc, match_result>>

searchVars == <<mailbox, saved_search, channels, session, tasks, sink>>

listVars == <<list_request, imap, mailboxes, status_fails, list_pc,
              list_items, status_items, list_sink, list_calls>>

queryVars == <<query_call, query_pc, query_out>>

callVars == <<search_call, search_pc, search_out, map_call, map_pc, map_out>>

streamVars == <<ws, ws_out>>

bitmapVars == <<fdb, bitmap_call, bitmap_pc, bitmap_out>>

vars == <<patterns, mailbox_name, match_pc, match_result,
          mailbox, saved_search, channels, session, tasks, sink,
          list_request, imap, mailboxes, status_fails, list_pc,
          list_items, status_items, list_sink, list_calls,
          query_call, query_pc, query_out,
          search_call, search_pc, search_out, map_call, map_pc, map_out,
          ws, ws_out, fdb, bitmap_call, bitmap_pc, bitmap_out>>

(***************************************************************************)
(* Bounds                                                                  *)
(***************************************************************************)
MaxPatLen == 4       \* longest pattern of a one-pattern list
MaxNameLen == 4      \* longest mailbox name matched against one pattern
MaxListPatLen == 1   \* longest pattern of a list of several patterns
MaxListNameLen == 2  \* longest mailbox name matched against such a list
MaxPatterns == 2     \* longest pattern list
MaxCmds == 2         \* SEARCH commands a session issues in one run
MaxFilters == 2      \* search keys of a SEARCH command passed to query()
MaxDocs == 3         \* documents of a mailbox state passed to map_result_id
MaxValueLen == 5     \* longest value of a HEADER search key
MaxKeys == 3         \* most keys of a get_bitmaps_intersection call

NameBytes == {"a", "b", "/"}
PatternBytes == NameBytes \cup {"%", "*"}

SeqsUpTo(S, n) == UNION {[1..k -> S] : k \in 0..n}

RECURSIVE ListsOf(_, _)
ListsOf(S, n) ==
    IF n = 0 THEN {<<>>}
    ELSE LET shorter == ListsOf(S, n - 1)
         IN shorter \cup {Append(l, p) : l \in {x \in shorter : Len(x) = n - 1}, p \in S}

SinglePatternLists == {<<p>> : p \in SeqsUpTo(PatternBytes, MaxPatLen)}
PatternLists == ListsOf(SeqsUpTo(PatternBytes, MaxListPatLen), MaxPatterns)

Names == SeqsUpTo(NameBytes, MaxNameLen)
ListNames == SeqsUpTo(NameBytes, MaxListNameLen)

(***************************************************************************)
(* matches_pattern, list.rs:309-375                                        *)
(***************************************************************************)
IsWildcard(ch) == ch = "%" \/ ch = "*"

\* list.rs:321-327: the peek loop that consumes the literal tail after a
\* wildcard at pos; i is the index peeked next, the result is end_pos.
RECURSIVE TailEnd(_, _)
TailEnd(pattern, i) ==
    IF i <= Len(pattern) /\ ~IsWildcard(pattern[i])
    THEN TailEnd(pattern, i + 1)
    ELSE i - 1

\* list.rs:333-355: the loop that looks for match_bytes in the rest of the
\* name. j is the next index the name iterator yields. The result says how
\* the loop is left and where the name iterator stands.
RECURSIVE SearchTail(_, _, _, _, _)
SearchTail(match_bytes, pattern_eof, name, j, match_count) ==
    IF j > Len(name)
    THEN [out |-> "continue_outer", j |-> j]
    ELSE IF match_bytes[match_count + 1] = name[j]
    THEN IF match_count + 1 = Len(match_bytes)
         THEN IF ~pattern_eof
              THEN [out |-> "continue_inner", j |-> j + 1]
              ELSE IF j + 1 > Len(name)
              THEN [out |-> "return_true", j |-> j + 1]
              ELSE SearchTail(match_bytes, pattern_eof, name, j + 1, 0)
         ELSE SearchTail(match_bytes, pattern_eof, name, j + 1, match_count + 1)
    ELSE SearchTail(match_bytes, pattern_eof, name, j + 1, 0)

\* A matcher that looks for '/' in the whole name, not in what the iterator
\* has left.
AnySlashWholeName(name, j) == \E k \in 1..Len(name) : name[k] = "/"

\* list.rs:356: mailbox_name.any(|&ch| ch == b'/') on the rest of the name
AnySlash(name, j) == \E k \in j..Len(name) : name[k] = "/"

\* list.rs:318-371: one iteration of 'outer. i and j are the positions of
\* the pattern and name iterators. TRUE is `return true`, FALSE is
\* `continue 'outer` (or falling out of the loop body into the next pattern).
RECURSIVE MatchOne(_, _, _, _)
MatchOne(pattern, name, i, j) ==
    IF i > Len(pattern)
    THEN j > Len(name)
    ELSE LET ch == pattern[i]
             pos == i
         IN IF IsWildcard(ch)
            THEN LET end_pos == TailEnd(pattern, pos + 1)
                 IN IF end_pos > pos
                    THEN LET match_bytes == SubSeq(pattern, pos + 1, end_pos)
                             pattern_eof == end_pos = Len(pattern)
                             r == SearchTail(match_bytes, pattern_eof, name, j, 0)
                         IN CASE r.out = "continue_inner" ->
                                     MatchOne(pattern, name, end_pos + 1, r.j)
                              [] r.out = "return_true" -> TRUE
                              [] OTHER -> FALSE
                    ELSE ch = "*" \/ ~AnySlash(name, j)
            ELSE IF j <= Len(name) /\ name[j] = ch
                 THEN MatchOne(pattern, name, i + 1, j + 1)
                 ELSE FALSE

\* A matcher whose name iterator is created once, before 'outer: a pattern
\* after the first starts where the failed attempt left the iterator.
PatternStartShared(pats, k, name) ==
    [i |-> 1, j |-> IF k > 1 /\ Len(name) > 0 THEN 2 ELSE 1]

\* list.rs:314-316: each pattern starts with fresh iterators over the
\* pattern and over the mailbox name.
PatternStart(pats, k, name) == [i |-> 1, j |-> 1]

\* list.rs:314-374: the 'outer loop from pattern k on
RECURSIVE MatchFrom(_, _, _)
MatchFrom(pats, name, k) ==
    IF k > Len(pats)
    THEN FALSE
    ELSE LET s == PatternStart(pats, k, name)
         IN IF MatchOne(pats[k], name, s.i, s.j)
            THEN TRUE
            ELSE MatchFrom(pats, name, k + 1)

\* list.rs:309-375
matches_pattern(pats, name) ==
    IF pats = <<>> THEN TRUE ELSE MatchFrom(pats, name, 1)

(***************************************************************************)
(* LIST: the engine, list.rs:83-305                                        *)
(***************************************************************************)
\* str::starts_with, list.rs:227
starts_with(s, prefix) ==
    Len(prefix) <= Len(s) /\ SubSeq(s, 1, Len(prefix)) = prefix

\* list::Arguments, list.rs:84-110. Basic carries one mailbox name and no
\* options; the options of Extended are vectors, read here as sets.
BasicArguments(reference_name, name) ==
    [basic |-> TRUE, reference_name |-> reference_name,
     mailbox_name |-> <<name>>,
     selection_options |-> {}, return_options |-> {}]

ExtendedArguments(reference_name, names, selection_options, return_options) ==
    [basic |-> FALSE, reference_name |-> reference_name,
     mailbox_name |-> names,
     selection_options |-> selection_options,
     return_options |-> return_options]

\* list.rs:119-157: the flags computed from the options
ListOptions(arguments, is_rev2) ==
    LET selection == arguments.selection_options
        return == arguments.return_options
    IN [filter_subscribed |-> "Subscribed" \in selection,
        filter_special_use |-> "SpecialUse" \in selection,
        recursive_match |-> "RecursiveMatch" \in selection,
        include_special_use |->
            is_rev2 \/ "SpecialUse" \in selection \/ "SpecialUse" \in return,
        include_subscribed |->
            "Subscribed" \in selection \/ "Subscribed" \in return,
        include_children |-> "Children" \in return,
        include_status |-> "Status" \in return]

\* list.rs:169-173: the reference name is prepended to every pattern
ListPatterns(arguments) ==
    IF arguments.mailbox_name # <<>> /\ arguments.reference_name # <<>>
    THEN [k \in 1..Len(arguments.mailbox_name) |->
              arguments.reference_name \o arguments.mailbox_name[k]]
    ELSE arguments.mailbox_name

ListItem(name, attributes, tags) ==
    [mailbox_name |-> name, attributes |-> attributes, tags |-> tags]

\* A LIST without the "All Mail" check of the subscription filter.
AllMailItemsUnfiltered(config, o, pats) ==
    IF config.name_all_enable /\ matches_pattern(pats, config.name_all)
    THEN <<ListItem(config.name_all, <<"All", "NoInferiors">>, <<>>)>>
    ELSE <<>>

\* list.rs:178-187: the "All Mail" folder
AllMailItems(config, o, pats) ==
    IF config.name_all_enable /\ ~o.filter_subscribed
       /\ matches_pattern(pats, config.name_all)
    THEN <<ListItem(config.name_all, <<"All", "NoInferiors">>, <<>>)>>
    ELSE <<>>

\* list.rs:197-201, 210-214: the attributes of the shared folder and of an
\* account prefix
SharedAttributes(o) ==
    IF o.include_children THEN <<"HasChildren", "NoSelect">> ELSE <<"NoSelect">>

\* A LIST that emits the shared folder for every account with a prefix.
SharedFolderItemsEveryAccount(config, o, pats, added_shared_folder) ==
    IF ~o.filter_subscribed /\ matches_pattern(pats, config.name_shared)
    THEN <<ListItem(config.name_shared, SharedAttributes(o), <<>>)>>
    ELSE <<>>

\* list.rs:193-206: the shared folder, before the first account with a prefix
SharedFolderItems(config, o, pats, added_shared_folder) ==
    IF ~added_shared_folder /\ ~o.filter_subscribed
       /\ matches_pattern(pats, config.name_shared)
    THEN <<ListItem(config.name_shared, SharedAttributes(o), <<>>)>>
    ELSE <<>>

\* list.rs:207-217: the prefix of an account
PrefixItems(account, o, pats) ==
    IF ~o.filter_subscribed /\ matches_pattern(pats, account.prefix)
    THEN <<ListItem(account.prefix, SharedAttributes(o), <<>>)>>
    ELSE <<>>

\* list.rs:224-234: a subscribed mailbox of the account below mailbox_name
HasRecursiveMatch(account, o, name) ==
    /\ o.recursive_match
    /\ \E k \in 1..Len(account.mailbox_names) :
          /\ starts_with(account.mailbox_names[k].name, name \o <<"/">>)
          /\ account.mailbox_state[account.mailbox_names[k].id].is_subscribed

\* A LIST that tags only the mailboxes that are not subscribed themselves.
ItemTagsUnsubscribedOnly(mbox, has_recursive_match) ==
    IF has_recursive_match /\ ~mbox.is_subscribed
    THEN <<"ChildInfoSubscribed">> ELSE <<>>

\* list.rs:257-261: the tags of a mailbox's list item
ItemTags(mbox, has_recursive_match) ==
    IF ~has_recursive_match THEN <<>> ELSE <<"ChildInfoSubscribed">>

\* A LIST that ignores the subscription filter.
PassesSubscriptionAlways(o, mbox, has_recursive_match) == TRUE

\* list.rs:235: the subscription filter
PassesSubscription(o, mbox, has_recursive_match) ==
    ~o.filter_subscribed \/ mbox.is_subscribed \/ has_recursive_match

\* list.rs:236-253: the attributes of a mailbox's list item
ItemAttributes(o, mbox) ==
    (IF o.include_children
     THEN <<IF mbox.has_children THEN "HasChildren" ELSE "HasNoChildren">>
     ELSE <<>>)
    \o (IF o.include_subscribed /\ mbox.is_subscribed
        THEN <<"Subscribed">> ELSE <<>>)
    \o (IF o.include_special_use /\ mbox.special_use # ""
        THEN <<mbox.special_use>> ELSE <<>>)

\* A LIST that never skips a mailbox for lacking a special use.
SkipsSpecialUseNever(o, mbox) == FALSE

\* list.rs:247-252: a mailbox without special use is skipped (continue)
SkipsSpecialUse(o, mbox) ==
    o.include_special_use /\ mbox.special_use = "" /\ o.filter_special_use

\* list.rs:221-264: the body of the loop over the account's mailbox names,
\* for the k-th name: the list item pushed, if any
MailboxItems(account, k, o, pats) ==
    LET name == account.mailbox_names[k].name
        mbox == account.mailbox_state[account.mailbox_names[k].id]
        has_recursive_match == HasRecursiveMatch(account, o, name)
    IN IF ~matches_pattern(pats, name)
       THEN <<>>
       ELSE IF ~PassesSubscription(o, mbox, has_recursive_match)
       THEN <<>>
       ELSE IF SkipsSpecialUse(o, mbox)
       THEN <<>>
       ELSE <<ListItem(name, ItemAttributes(o, mbox),
                       ItemTags(mbox, has_recursive_match))>>

\* list.rs:220-265: the loop over the account's mailbox names, from k on
RECURSIVE AccountMailboxItems(_, _, _, _)
AccountMailboxItems(account, k, o, pats) ==
    IF k > Len(account.mailbox_names)
    THEN <<>>
    ELSE MailboxItems(account, k, o, pats)
         \o AccountMailboxItems(account, k + 1, o, pats)

\* list.rs:191-266: the loop over the accounts, from account a on
RECURSIVE AccountItems(_, _, _, _, _, _)
AccountItems(accounts, a, added_shared_folder, config, o, pats) ==
    IF a > Len(accounts)
    THEN <<>>
    ELSE LET account == accounts[a]
         IN (IF account.has_prefix
             THEN SharedFolderItems(config, o, pats, added_shared_folder)
                  \o PrefixItems(account, o, pats)
             ELSE <<>>)
            \o AccountMailboxItems(account, 1, o, pats)
            \o AccountItems(accounts, a + 1,
                            added_shared_folder \/ account.has_prefix,
                            config, o, pats)

\* list.rs:175-266: the list items of a LIST
ListItems(arguments, is_rev2, config, accounts) ==
    LET o == ListOptions(arguments, is_rev2)
        pats == ListPatterns(arguments)
    IN AllMailItems(config, o, pats)
       \o AccountItems(accounts, 1, FALSE, config, o, pats)

(***************************************************************************)
(* LIST: the inputs of the model                                           *)
(***************************************************************************)
\* self.imap: the names of the synthesized folders, list.rs:178-196
ImapConfig(name_all_enable) ==
    [name_all_enable |-> name_all_enable,
     name_all |-> <<"m">>,
     name_shared |-> <<"s">>]

MailboxEntry(is_subscribed, has_children, special_use) ==
    [is_subscribed |-> is_subscribed, has_children |-> has_children,
     special_use |-> special_use]

\* The personal account: mailboxes a, a/b and c (c is the Sent folder).
\* subscribed[i] is the subscription flag of mailbox i.
PersonalAccount(subscribed) ==
    [has_prefix |-> FALSE, prefix |-> <<>>,
     mailbox_names |-> <<[name |-> <<"a">>, id |-> 1],
                         [name |-> <<"a", "/", "b">>, id |-> 2],
                         [name |-> <<"c">>, id |-> 3]>>,
     mailbox_state |-> (1 :> MailboxEntry(subscribed[1], TRUE, ""))
                       @@ (2 :> MailboxEntry(subscribed[2], FALSE, ""))
                       @@ (3 :> MailboxEntry(subscribed[3], FALSE, "Sent"))]

\* A shared account with prefix s/x and one subscribed mailbox s/x/a.
SharedAccount ==
    [has_prefix |-> TRUE, prefix |-> <<"s", "/", "x">>,
     mailbox_names |-> <<[name |-> <<"s", "/", "x", "/", "a">>, id |-> 1]>>,
     mailbox_state |-> (1 :> MailboxEntry(TRUE, FALSE, ""))]

\* A second shared account, with prefix s/y and the mailbox s/y/a.
SecondSharedAccount ==
    [has_prefix |-> TRUE, prefix |-> <<"s", "/", "y">>,
     mailbox_names |-> <<[name |-> <<"s", "/", "y", "/", "a">>, id |-> 1]>>,
     mailbox_state |-> (1 :> MailboxEntry(FALSE, FALSE, ""))]

Namespaces ==
    {<<PersonalAccount(subscribed), SharedAccount>> :
        subscribed \in [1..3 -> BOOLEAN]}
    \cup {<<PersonalAccount([i \in 1..3 |-> TRUE]), SharedAccount,
            SecondSharedAccount>>}

\* the reference names and pattern lists of the requests
ListPatternInputs ==
    {[reference_name |-> <<>>, mailbox_name |-> << <<"*">> >>],
     [reference_name |-> <<>>, mailbox_name |-> << <<"%">> >>],
     [reference_name |-> <<"a", "/">>, mailbox_name |-> << <<"%">> >>],
     [reference_name |-> <<>>, mailbox_name |-> << <<"c">>, <<"s", "*">> >>],
     [reference_name |-> <<>>, mailbox_name |-> << <<>> >>],
     [reference_name |-> <<>>, mailbox_name |-> <<>>]}

SelectionOptionSets ==
    (SUBSET {"Subscribed", "SpecialUse", "RecursiveMatch"}) \cup {{"Remote"}}

ReturnOptionSets ==
    (SUBSET {"Subscribed", "Children", "Status"}) \cup {{"SpecialUse"}}

\* request.parse_list(self.version), list.rs:44: the arguments of a LIST
ListArguments ==
    {ExtendedArguments(p.reference_name, p.mailbox_name, selection, return) :
        p \in ListPatternInputs, selection \in SelectionOptionSets,
        return \in ReturnOptionSets}
    \cup
    {BasicArguments(p.reference_name, p.mailbox_name[1]) :
        p \in {q \in ListPatternInputs : Len(q.mailbox_name) = 1}}

\* request.parse_lsub(), list.rs:46: an LSUB is a LIST of the subscribed
\* mailboxes, without return options.
LsubArguments ==
    {ExtendedArguments(p.reference_name, p.mailbox_name, {"Subscribed"}, {}) :
        p \in {q \in ListPatternInputs : Len(q.mailbox_name) = 1}}

\* Arguments::is_separator_query, list.rs:49: the request names the empty
\* mailbox
is_separator_query(arguments) == arguments.mailbox_name = << <<>> >>

\* The request of the session: the command, whether it parses, the protocol
\* version of the session and the parsed arguments.
ListRequests ==
    {[command |-> "List", parse_ok |-> TRUE, is_rev2 |-> is_rev2,
      arguments |-> arguments] :
        is_rev2 \in BOOLEAN, arguments \in ListArguments}
    \cup
    {[command |-> "Lsub", parse_ok |-> TRUE, is_rev2 |-> FALSE,
      arguments |-> arguments] : arguments \in LsubArguments}
    \cup
    {[command |-> command, parse_ok |-> FALSE, is_rev2 |-> FALSE,
      arguments |-> BasicArguments(<<>>, <<>>)] : command \in {"List", "Lsub"}}

\* the sets of mailbox names whose STATUS fails
StatusFailures ==
    {{}, {<<"a">>, <<"m">>}, {<<"c">>},
     {<<"a">>, <<"a", "/", "b">>, <<"c">>, <<"m">>, <<"s">>, <<"s", "/", "x">>,
      <<"s", "/", "x", "/", "a">>}}

NoCalls ==
    [spawned |-> FALSE, refreshed |-> FALSE, refresh_ok |-> FALSE,
     read_mailboxes |-> FALSE, status_queries |-> <<>>]

\* no LIST is issued
ListIdle ==
    /\ list_request = [command |-> "List", parse_ok |-> FALSE,
                       is_rev2 |-> FALSE,
                       arguments |-> BasicArguments(<<>>, <<>>)]
    /\ imap = ImapConfig(FALSE)
    /\ mailboxes = <<>>
    /\ status_fails = {}
    /\ list_pc = "done"
    /\ list_items = <<>>
    /\ status_items = <<>>
    /\ list_sink = <<>>
    /\ list_calls = NoCalls

(***************************************************************************)
(* LIST: handle_list and the spawned task                                  *)
(***************************************************************************)
\* StatusResponse::completed(command).with_tag(tag).serialize(response),
\* list.rs:58-72, 288-302
CompletedList(request, items, statuses) ==
    [kind |-> "OK", text |-> "completed", command |-> request.command,
     is_rev2 |-> request.is_rev2, is_lsub |-> request.command = "Lsub",
     list_items |-> items, status_items |-> statuses]

\* a tagged status response without list data, list.rs:77, 114, 159-163
FailedList(request, kind, text) ==
    [kind |-> kind, text |-> text, command |-> request.command,
     is_rev2 |-> request.is_rev2, is_lsub |-> request.command = "Lsub",
     list_items |-> <<>>, status_items |-> <<>>]

\* A separator item without its attribute.
SeparatorItemBare == ListItem(<<>>, <<>>, <<>>)

\* list.rs:64-68: the list item of a separator query
SeparatorItem == ListItem(<<>>, <<"NoSelect">>, <<>>)

\* list.rs:40-79: handle_list. A request that does not parse is answered
\* with the parser's response; a separator query is answered at once; any
\* other request spawns the list task.
HandleList ==
    /\ list_pc = "call"
    /\ IF ~list_request.parse_ok
       THEN /\ list_sink' = Append(list_sink,
                              FailedList(list_request, "BAD", "parse error"))
            /\ list_pc' = "done"
            /\ UNCHANGED list_calls
       ELSE IF is_separator_query(list_request.arguments)
       THEN /\ list_sink' = Append(list_sink,
                              CompletedList(list_request, <<SeparatorItem>>, <<>>))
            /\ list_pc' = "done"
            /\ UNCHANGED list_calls
       ELSE /\ list_calls' = [list_calls EXCEPT !.spawned = TRUE]
            /\ list_pc' = "refresh"
            /\ UNCHANGED list_sink
    /\ UNCHANGED <<list_request, imap, mailboxes, status_fails, list_items,
                   status_items>>
    /\ UNCHANGED <<matchVars, searchVars, queryVars, callVars, streamVars, bitmapVars>>

\* list.rs:112-116: synchronize_mailboxes succeeds, or fails and its error
\* is the response
ListRefresh ==
    /\ list_pc = "refresh"
    /\ \E refresh_ok \in BOOLEAN :
          /\ list_calls' = [list_calls EXCEPT !.refreshed = TRUE,
                                              !.refresh_ok = refresh_ok]
          /\ IF refresh_ok
             THEN list_pc' = "process" /\ UNCHANGED list_sink
             ELSE /\ list_sink' =
                       Append(list_sink,
                              FailedList(list_request, "NO", "refresh failed"))
                  /\ list_pc' = "done"
    /\ UNCHANGED <<list_request, imap, mailboxes, status_fails, list_items,
                   status_items>>
    /\ UNCHANGED <<matchVars, searchVars, queryVars, callVars, streamVars, bitmapVars>>

\* A LIST that accepts RECURSIVEMATCH on its own.
InvalidOptionsNever(o) == FALSE

\* list.rs:158: RECURSIVEMATCH without SUBSCRIBED
InvalidOptions(o) == o.recursive_match /\ ~o.filter_subscribed

\* list.rs:118-266: the options are checked and the list items are built
ListProcess ==
    /\ list_pc = "process"
    /\ LET o == ListOptions(list_request.arguments, list_request.is_rev2)
       IN IF InvalidOptions(o)
          THEN /\ list_sink' =
                    Append(list_sink,
                           FailedList(list_request, "BAD",
                               "RECURSIVEMATCH cannot be the only selection option."))
               /\ list_pc' = "done"
               /\ UNCHANGED <<list_items, list_calls>>
          ELSE /\ list_items' = ListItems(list_request.arguments,
                                          list_request.is_rev2, imap, mailboxes)
               /\ list_calls' = [list_calls EXCEPT !.read_mailboxes = TRUE]
               /\ list_pc' = IF o.include_status /\ list_items' # <<>>
                             THEN "status" ELSE "write"
               /\ UNCHANGED list_sink
    /\ UNCHANGED <<list_request, imap, mailboxes, status_fails, status_items>>
    /\ UNCHANGED <<matchVars, searchVars, queryVars, callVars, streamVars, bitmapVars>>

StatusItem(name) == [mailbox_name |-> name]

\* A LIST that gives up the status items at the first failure.
StatusResultAbort(statuses, name, ok) ==
    IF ok THEN Append(statuses, StatusItem(name)) ELSE <<>>

\* list.rs:272-282: the status of an item is pushed, a failure is logged
StatusResult(statuses, name, ok) ==
    IF ok THEN Append(statuses, StatusItem(name)) ELSE statuses

\* list.rs:271-283: one iteration of the loop over the list items: the
\* status of the next item is queried
ListStatus ==
    /\ list_pc = "status"
    /\ LET k == Len(list_calls.status_queries) + 1
           name == list_items[k].mailbox_name
       IN /\ list_calls' = [list_calls EXCEPT
                               !.status_queries = Append(@, name)]
          /\ status_items' = StatusResult(status_items, name,
                                          name \notin status_fails)
          /\ list_pc' = IF k < Len(list_items) THEN "status" ELSE "write"
    /\ UNCHANGED <<list_request, imap, mailboxes, status_fails, list_items,
                   list_sink>>
    /\ UNCHANGED <<matchVars, searchVars, queryVars, callVars, streamVars, bitmapVars>>

\* list.rs:286-304: the response is written
ListWrite ==
    /\ list_pc = "write"
    /\ list_sink' = Append(list_sink,
                           CompletedList(list_request, list_items, status_items))
    /\ list_pc' = "done"
    /\ UNCHANGED <<list_request, imap, mailboxes, status_fails, list_items,
                   status_items, list_calls>>
    /\ UNCHANGED <<matchVars, searchVars, queryVars, callVars, streamVars, bitmapVars>>

(***************************************************************************)
(* SEARCH: data                                                            *)
(***************************************************************************)
\* Option<Arc<Vec<ImapId>>>
NoneOpt == [some |-> FALSE, items |-> <<>>]
SomeOpt(l) == [some |-> TRUE, items |-> l]

\* Option<Option<Arc<Vec<ImapId>>>>, the prev_saved_search of search.rs:66-74
NoPrev == [save |-> FALSE, some |-> FALSE, items |-> <<>>]
Prev(opt) == [save |-> TRUE, some |-> opt.some, items |-> opt.items]

\* SavedSearch, the three variants read at search.rs:657-665
SavedNone == [kind |-> "None", rx |-> 0, items |-> <<>>]
SavedInFlight(rx) == [kind |-> "InFlight", rx |-> rx, items |-> <<>>]
SavedResults(l) == [kind |-> "Results", rx |-> 0, items |-> l]

ImapId(u, s) == [uid |-> u, seqnum |-> s]

\* The selected mailbox of the model: documents 1 and 2 are in the current
\* state (document 2 has the lower uid), document 3 was delivered after the
\* snapshot and is known to next_state only.
SelectedState ==
    [uid_to_id |-> (11 :> 2) @@ (12 :> 1),
     id_to_imap |-> (1 :> ImapId(12, 2)) @@ (2 :> ImapId(11, 1)),
     has_next |-> TRUE,
     next_id_to_imap |-> (1 :> ImapId(12, 2)) @@ (2 :> ImapId(11, 1))
                           @@ (3 :> ImapId(13, 3))]

SelectedMailbox ==
    [id |-> [account_id |-> 1, has_mailbox_id |-> TRUE, mailbox_id |-> 7],
     state |-> SelectedState]

\* The virtual all-mail mailbox (mailbox_id is None): every document of the
\* account, 4 included, which is in no state of SelectedMailbox.
AllMailState ==
    [uid_to_id |-> (11 :> 2) @@ (12 :> 1) @@ (14 :> 4),
     id_to_imap |-> (1 :> ImapId(12, 2)) @@ (2 :> ImapId(11, 1))
                      @@ (4 :> ImapId(14, 3)),
     has_next |-> FALSE,
     next_id_to_imap |-> (1 :> ImapId(12, 2)) @@ (2 :> ImapId(11, 1))
                           @@ (4 :> ImapId(14, 3))]

AllMailMailbox ==
    [id |-> [account_id |-> 1, has_mailbox_id |-> FALSE, mailbox_id |-> 0],
     state |-> AllMailState]

\* The index store's content, as the calls of query() see it.
\* get_tag(account, Email, MailboxIds, mailbox_id), search.rs:258-267
StoreTagged == {1, 2, 3}
\* get_document_ids(account, Email), search.rs:271-274
StoreDocumentIds == {1, 2, 3, 4}
\* the Keywords bitmap of a keyword, read by filter() for search.rs:344-349
StoreKeyword(kw) ==
    IF kw = "Flagged" THEN {1, 4}
    ELSE IF kw = "Seen" THEN {1, 2}
    ELSE IF kw = "Recent" THEN {2, 3}
    ELSE {}
\* the documents that have a header, read by filter() for search.rs:392-397
StoreHeader(token) == IF token = "Subject" THEN {2, 3} ELSE {}
\* the seconds of a day, search.rs:431
Day == 86400
\* the documents with a word in a header, read for search.rs:398-411
StoreHeaderToken(header, word) ==
    IF header = "Subject" /\ word = <<"x">> THEN {2, 3}
    ELSE IF header = "Subject" /\ word = <<"y">> THEN {3}
    ELSE {}
\* ReceivedAt and SentAt of a document, read for search.rs:426-449
StoreDate(property, d) ==
    IF property = "ReceivedAt"
    THEN ((1 :> Day) @@ (2 :> 2 * Day - 1) @@ (3 :> 2 * Day) @@ (4 :> Day + 1))[d]
    ELSE ((1 :> 0) @@ (2 :> Day) @@ (3 :> Day) @@ (4 :> 3 * Day))[d]
\* the documents with a text in a property, read for search.rs:466-496
StoreText(property, text) ==
    IF text # "x" THEN {}
    ELSE IF property = "From" THEN {1}
    ELSE IF property = "Attachments" THEN {4}
    ELSE {}
\* changes_(account, Email, from_modseq), search.rs:602-610: the ids of the
\* change log entries since modseq. A u64 id is its two 32-bit halves; the
\* low half is the document id.
U64(hi, lo) == [hi |-> hi, lo |-> lo]
StoreChanges(modseq) ==
    IF modseq <= 40 THEN <<U64(1, 2), U64(2, 4)>>
    ELSE IF modseq <= 41 THEN <<U64(2, 4)>>
    ELSE <<>>
\* (id & u32::MAX as u64) as u32, search.rs:612
Low32(id) == id.lo

\* The places of search() where a store access can fail.
FailPoints == {"none", "get_tag", "filter", "sync", "sort"}

(***************************************************************************)
(* SEARCH: the filter compiler, search.rs:248-652                          *)
(***************************************************************************)
InSet(set) == [atom |-> "InSet", set |-> set, property |-> "", token |-> ""]
InBitmap(property, token) ==
    [atom |-> "InBitmap", set |-> {}, property |-> property, token |-> token]
HasRawText(property, token) ==
    [atom |-> "HasRawText", set |-> {}, property |-> property, token |-> token]

\* query::Filter::And, Or, Not and End, search.rs:405-413, 548-559
Marker(op) == [atom |-> op]
\* query::Filter::ge, lt, search.rs:428-432
Ge(property, value) == [atom |-> "Ge", property |-> property, value |-> value]
Lt(property, value) == [atom |-> "Lt", property |-> property, value |-> value]
\* query::Filter::has_text, has_text_detect, search.rs:468-494
HasText(property, text) ==
    [atom |-> "HasText", property |-> property, text |-> text]
HasTextDetect(property, text) ==
    [atom |-> "HasTextDetect", property |-> property, text |-> text]
\* has_raw_text of a token format!("{header_num}{token}"), search.rs:377-381
HasRawToken(property, header, word) ==
    [atom |-> "HasRawText", property |-> property, header |-> header,
     word |-> word]

FilterAll == [kind |-> "All", arg |-> "", modseq |-> 0]
FilterFlagged == [kind |-> "Flagged", arg |-> "", modseq |-> 0]
FilterSavedSearch == [kind |-> "Sequence", arg |-> "SavedSearch", modseq |-> 0]
FilterHeader(header) == [kind |-> "Header", arg |-> header, modseq |-> 0]
FilterModSeq(m) == [kind |-> "ModSeq", arg |-> "", modseq |-> m]

\* search::Filter::And, Or, Not, End, search.rs:548-559
FilterMarker(op) == [kind |-> op]
FilterUnflagged == [kind |-> "Unflagged"]
FilterUnseen == [kind |-> "Unseen"]
FilterOn(date) == [kind |-> "On", date |-> date]
FilterSentOn(date) == [kind |-> "SentOn", date |-> date]
FilterNew == [kind |-> "New"]
FilterOld == [kind |-> "Old"]
FilterText(text) == [kind |-> "Text", text |-> text]
\* HEADER with a value, a string of the characters x, Y and space
FilterHeaderValue(header, value) ==
    [kind |-> "HeaderValue", header |-> header, value |-> value]

\* fts::builder::MAX_TOKEN_LENGTH, imported at search.rs:39; the model
\* scales it down to the length of its values
MAX_TOKEN_LENGTH == 3

\* value.split_ascii_whitespace(), search.rs:373-374: the words of the
\* value from character k on; word is the word being read
RECURSIVE SplitFrom(_, _, _)
SplitFrom(value, k, word) ==
    IF k > Len(value)
    THEN IF word = <<>> THEN <<>> ELSE <<word>>
    ELSE IF value[k] = " "
    THEN (IF word = <<>> THEN <<>> ELSE <<word>>) \o SplitFrom(value, k + 1, <<>>)
    ELSE SplitFrom(value, k + 1, Append(word, value[k]))

SplitAsciiWhitespace(value) == SplitFrom(value, 1, <<>>)

\* search.rs:364-370
IsIdHeader(header) == header = "Message-Id"

\* token.to_lowercase(), search.rs:380
ToLowercase(word) ==
    [k \in 1..Len(word) |-> IF word[k] = "Y" THEN "y" ELSE word[k]]

\* Tokens that keep the words of MAX_TOKEN_LENGTH characters and more.
RECURSIVE HeaderTokensKeepLong(_, _)
HeaderTokensKeepLong(header, words) ==
    IF words = <<>>
    THEN <<>>
    ELSE <<HasRawToken("Headers", header,
                       IF IsIdHeader(header) THEN Head(words)
                       ELSE ToLowercase(Head(words)))>>
         \o HeaderTokensKeepLong(header, Tail(words))

\* search.rs:375-386: the tokens of the words of a header value. A word of
\* MAX_TOKEN_LENGTH characters or more is left out; the words of a header
\* that is not an id are lowercased; the header's number is put in front.
RECURSIVE HeaderTokens(_, _)
HeaderTokens(header, words) ==
    IF words = <<>>
    THEN <<>>
    ELSE LET w == Head(words)
             rest == HeaderTokens(header, Tail(words))
         IN IF Len(w) < MAX_TOKEN_LENGTH
            THEN <<HasRawToken("Headers", header,
                               IF IsIdHeader(header) THEN w
                               ELSE ToLowercase(w))>> \o rest
            ELSE rest

\* search.rs:566-579: the atoms of NEW
NewAtomsOneEnd ==
    <<Marker("And"), InBitmap("Keywords", "Recent"), Marker("Not"),
      InBitmap("Keywords", "Seen"), Marker("End")>>

NewAtoms ==
    <<Marker("And"), InBitmap("Keywords", "Recent"), Marker("Not"),
      InBitmap("Keywords", "Seen"), Marker("End"), Marker("End")>>

\* HeaderName::parse, search.rs:357-358: the headers the model knows
RfcHeaders == {"Subject", "Message-Id"}

\* A translation of the saved ImapIds by their seqnums.
SavedToSetBySeqnum(state, items) ==
    {state.uid_to_id[items[k].seqnum] :
        k \in {n \in 1..Len(items) : items[n].seqnum \in DOMAIN state.uid_to_id}}

\* search.rs:286-292: the saved ImapIds translated through uid_to_id
SavedToSet(state, items) ==
    {state.uid_to_id[items[k].uid] :
        k \in {n \in 1..Len(items) : items[n].uid \in DOMAIN state.uid_to_id}}

\* A MODSEQ set that is not restricted to the universe.
ModSeqSetUnrestricted(modseq, message_ids) ==
    LET changes == StoreChanges(modseq)
    IN {Low32(changes[k]) : k \in 1..Len(changes)}

\* search.rs:600-618: the set of a MODSEQ filter
ModSeqSet(modseq, message_ids) ==
    LET changes == StoreChanges(modseq)
    IN {Low32(changes[k]) : k \in 1..Len(changes)} \cap message_ids

\* search.rs:279-644: one iteration of the loop over imap_filter. The
\* result is the atoms pushed, or the error returned.
CompileFilter(filter, mbox, prev_saved_search, message_ids) ==
    CASE filter.kind = "Sequence" ->
            IF filter.arg = "SavedSearch" /\ prev_saved_search.save
            THEN IF prev_saved_search.some
                 THEN [ok |-> TRUE, err |-> "", modseq |-> FALSE,
                       atoms |-> <<InSet(SavedToSet(mbox.state,
                                                    prev_saved_search.items))>>]
                 ELSE [ok |-> FALSE, err |-> "No saved search found.",
                       modseq |-> FALSE, atoms |-> <<>>]
            ELSE \* search.rs:297-304, sequence_to_ids: not part of this model
                 [ok |-> FALSE, err |-> "sequence_to_ids", modseq |-> FALSE,
                  atoms |-> <<>>]
      [] filter.kind = "All" ->
            [ok |-> TRUE, err |-> "", modseq |-> FALSE,
             atoms |-> <<InSet(message_ids)>>]
      [] filter.kind = "Flagged" ->
            [ok |-> TRUE, err |-> "", modseq |-> FALSE,
             atoms |-> <<InBitmap("Keywords", "Flagged")>>]
      [] filter.kind = "Header" ->
            \* search.rs:357-416, for an empty value (no tokens)
            IF filter.arg \notin RfcHeaders
            THEN [ok |-> FALSE, err |-> "Querying non-RFC header is not allowed.",
                  modseq |-> FALSE, atoms |-> <<>>]
            ELSE [ok |-> TRUE, err |-> "", modseq |-> FALSE,
                  atoms |-> <<HasRawText("Headers", filter.arg)>>]
      [] filter.kind = "ModSeq" ->
            [ok |-> TRUE, err |-> "", modseq |-> TRUE,
             atoms |-> <<InSet(ModSeqSet(filter.modseq, message_ids))>>]
      [] filter.kind = "HeaderValue" ->
            \* search.rs:357-416, for a value with words
            IF filter.header \notin RfcHeaders
            THEN [ok |-> FALSE, err |-> "Querying non-RFC header is not allowed.",
                  modseq |-> FALSE, atoms |-> <<>>]
            ELSE LET tokens == HeaderTokens(filter.header,
                                            SplitAsciiWhitespace(filter.value))
                 IN [ok |-> TRUE, err |-> "", modseq |-> FALSE,
                     atoms |->
                        IF Len(tokens) = 0
                        THEN <<HasRawText("Headers", filter.header)>>
                        ELSE IF Len(tokens) = 1
                        THEN tokens
                        ELSE <<Marker("And")>> \o tokens \o <<Marker("End")>>]
      [] filter.kind = "On" ->
            [ok |-> TRUE, err |-> "", modseq |-> FALSE,
             atoms |-> <<Marker("And"), Ge("ReceivedAt", filter.date),
                         Lt("ReceivedAt", filter.date + Day), Marker("End")>>]
      [] filter.kind = "SentOn" ->
            [ok |-> TRUE, err |-> "", modseq |-> FALSE,
             atoms |-> <<Marker("And"), Ge("SentAt", filter.date),
                         Lt("SentAt", filter.date + Day), Marker("End")>>]
      [] filter.kind = "Text" ->
            [ok |-> TRUE, err |-> "", modseq |-> FALSE,
             atoms |-> <<Marker("Or"), HasText("From", filter.text),
                         HasText("To", filter.text), HasText("Cc", filter.text),
                         HasText("Bcc", filter.text),
                         HasTextDetect("Subject", filter.text),
                         HasTextDetect("TextBody", filter.text),
                         HasTextDetect("Attachments", filter.text),
                         Marker("End")>>]
      [] filter.kind = "Unflagged" ->
            [ok |-> TRUE, err |-> "", modseq |-> FALSE,
             atoms |-> <<Marker("Not"), InBitmap("Keywords", "Flagged"),
                         Marker("End")>>]
      [] filter.kind = "Unseen" ->
            [ok |-> TRUE, err |-> "", modseq |-> FALSE,
             atoms |-> <<Marker("Not"), InBitmap("Keywords", "Seen"),
                         Marker("End")>>]
      [] filter.kind \in {"And", "Or", "Not", "End"} ->
            [ok |-> TRUE, err |-> "", modseq |-> FALSE,
             atoms |-> <<Marker(filter.kind)>>]
      [] filter.kind = "New" ->
            [ok |-> TRUE, err |-> "", modseq |-> FALSE, atoms |-> NewAtoms]
      [] filter.kind = "Old" ->
            [ok |-> TRUE, err |-> "", modseq |-> FALSE,
             atoms |-> <<Marker("Not"), InBitmap("Keywords", "Seen"),
                         Marker("End")>>]

\* search.rs:279-644: the loop, from filter k on; acc is what the loop
\* has built so far and c what the arm of filter k returned.
RECURSIVE CompileFrom(_, _, _, _, _, _)
CompileNext(imap_filter, k, mbox, prev_saved_search, message_ids, acc, c) ==
    IF ~c.ok
    THEN [ok |-> FALSE, err |-> c.err, filters |-> <<>>,
          include_highest_modseq |-> FALSE]
    ELSE CompileFrom(imap_filter, k + 1, mbox, prev_saved_search, message_ids,
                     [acc EXCEPT !.filters = @ \o c.atoms,
                                 !.include_highest_modseq = @ \/ c.modseq])

CompileFrom(imap_filter, k, mbox, prev_saved_search, message_ids, acc) ==
    IF k > Len(imap_filter)
    THEN acc
    ELSE CompileNext(imap_filter, k, mbox, prev_saved_search, message_ids, acc,
                     CompileFilter(imap_filter[k], mbox, prev_saved_search,
                                   message_ids))

\* The store's filter(account, Email, filters), search.rs:647-651: the
\* documents that satisfy every atom of the list.
AtomSet(a) ==
    CASE a.atom = "InSet" -> a.set
      [] a.atom = "InBitmap" -> StoreKeyword(a.token)
      [] a.atom = "HasRawText" ->
            IF "word" \in DOMAIN a THEN StoreHeaderToken(a.header, a.word)
            ELSE StoreHeader(a.token)
      [] a.atom = "Ge" ->
            {d \in StoreDocumentIds : StoreDate(a.property, d) >= a.value}
      [] a.atom = "Lt" ->
            {d \in StoreDocumentIds : StoreDate(a.property, d) < a.value}
      [] a.atom \in {"HasText", "HasTextDetect"} -> StoreText(a.property, a.text)

IsMarker(a) == a.atom \in {"And", "Or", "Not", "End"}

\* The list is a sequence of operands, all of which a document must
\* satisfy. An operand is an atom or And, Or or Not followed by operands up
\* to its End; Not takes the documents its operands do not all select.
RECURSIVE EvalOperands(_, _, _, _)
EvalOperands(filters, k, op, acc) ==
    IF k > Len(filters)
    THEN [set |-> acc, next |-> k]
    ELSE IF filters[k].atom = "End"
    THEN [set |-> acc, next |-> k + 1]
    ELSE LET inner == EvalOperands(filters, k + 1, filters[k].atom,
                                   IF filters[k].atom = "Or" THEN {}
                                   ELSE StoreDocumentIds)
             v == IF ~IsMarker(filters[k]) THEN AtomSet(filters[k])
                  ELSE IF filters[k].atom = "Not"
                  THEN StoreDocumentIds \ inner.set
                  ELSE inner.set
             next == IF IsMarker(filters[k]) THEN inner.next ELSE k + 1
         IN EvalOperands(filters, next, op,
                         IF op = "Or" THEN acc \cup v ELSE acc \cap v)

StoreFilter(filters) ==
    EvalOperands(filters, 1, "And", StoreDocumentIds).set

\* search.rs:255-275: the universe and the leading atom
MessageIds(mbox) ==
    IF mbox.id.has_mailbox_id THEN StoreTagged ELSE StoreDocumentIds

\* A query() that pushes the universe for every mailbox.
LeadingFiltersAlways(mbox) == <<InSet(MessageIds(mbox))>>

LeadingFilters(mbox) ==
    IF mbox.id.has_mailbox_id THEN <<InSet(StoreTagged)>> ELSE <<>>

\* search.rs:248-256 and 646-652: the store accesses around the loop;
\* compiled is what the loop over imap_filter built.
QueryCompiled(fail, compiled) ==
    IF fail = "get_tag"
    THEN [ok |-> FALSE, err |-> "Database failure.", results |-> {},
          include_highest_modseq |-> FALSE, filter_calls |-> <<>>]
    ELSE IF ~compiled.ok
    THEN [ok |-> FALSE, err |-> compiled.err, results |-> {},
          include_highest_modseq |-> FALSE, filter_calls |-> <<>>]
    ELSE IF fail = "filter"
    THEN [ok |-> FALSE, err |-> "Database failure.", results |-> {},
          include_highest_modseq |-> FALSE,
          filter_calls |-> <<compiled.filters>>]
    ELSE [ok |-> TRUE, err |-> "", results |-> StoreFilter(compiled.filters),
          include_highest_modseq |-> compiled.include_highest_modseq,
          filter_calls |-> <<compiled.filters>>]

\* search.rs:248-652. fail names the store access that fails, if any
\* ("get_tag" is the first one, get_tag or get_document_ids). filter_calls
\* is the list of the filter lists the store's filter() was called with.
query(imap_filter, mbox, prev_saved_search, fail) ==
    QueryCompiled(fail,
                  CompileFrom(imap_filter, 1, mbox, prev_saved_search,
                              MessageIds(mbox),
                              [ok |-> TRUE, err |-> "",
                               filters |-> LeadingFilters(mbox),
                               include_highest_modseq |-> FALSE]))

\* query() before it is called: nothing returned, the store not asked
NoQueryOut == [ok |-> FALSE, err |-> "", results |-> {},
               include_highest_modseq |-> FALSE, filter_calls |-> <<>>]

QueryIdle ==
    /\ query_call = [imap_filter |-> <<>>, prev_saved_search |-> NoPrev,
                     fail |-> "none"]
    /\ query_pc = "done"
    /\ query_out = NoQueryOut

\* search() and map_result_id before they are called
NoSearchOut == [ok |-> FALSE, err |-> "", saved_results |-> <<>>,
                response |-> <<>>]

NoMapOut == [some |-> FALSE, id |-> 0, imap_id |-> [uid |-> 0, seqnum |-> 0],
             resolved |-> {}]

SearchCallIdle ==
    /\ search_call = [arguments |-> [is_uid |-> FALSE, sort |-> FALSE,
                                     result_options |-> {}, filter |-> <<>>],
                      prev_saved_search |-> NoPrev, fail |-> "none"]
    /\ search_pc = "done"
    /\ search_out = NoSearchOut

CallIdle ==
    /\ SearchCallIdle
    /\ map_call = [document_id |-> 0, is_uid |-> FALSE]
    /\ map_pc = "done"
    /\ map_out = NoMapOut

(***************************************************************************)
(* WebSocket: the handler loop of a connection, stream.rs:43-215           *)
(***************************************************************************)
\* stream.rs:56-58: the configured durations, in ticks of the clock
web_socket_throttle == 1
web_socket_heartbeat == 2
web_socket_timeout == 3

\* Instant::elapsed() is counted up to one tick beyond the longest duration
\* it is compared with
MaxElapsed == web_socket_timeout + 1
Later(elapsed) == IF elapsed < MaxElapsed THEN elapsed + 1 ELSE elapsed

DataTypes == {"Email", "Mailbox"}
ChangeIds == 1..2

\* an entry of StateChange.types and of WebSocketStateChange.changed
TypeState(type, change_id) == [type |-> type, change_id |-> change_id]

\* StateChange of the one account of the connection: no type twice
StateChanges ==
    UNION {{{TypeState(t, f[t]) : t \in T} : f \in [T -> ChangeIds]} :
              T \in SUBSET DataTypes}

WsFrame(kind, data_types) == [kind |-> kind, data_types |-> data_types]

\* the frames of the client: Text with a request, a request that fails, a
\* text that does not parse, PushEnable, PushDisable; Ping; Pong; Close
WsFrames ==
    {WsFrame(k, {}) : k \in {"Request", "FailingRequest", "Invalid",
                             "PushDisable", "Ping", "Pong", "Close"}}
    \cup {WsFrame("PushEnable", T) : T \in SUBSET DataTypes}

WsMessage(kind, changed) == [kind |-> kind, changed |-> changed]
NoWsMessage == WsMessage("none", {})

\* stream.rs:59-62, 82-83: the locals when the loop is entered. `waited` is
\* the time since the timeout of the current iteration was armed and
\* `silent` the time since the client's last frame.
WsStart ==
    [pc |-> "loop", change_types |-> {}, changed |-> {},
     last_request |-> 0,
     last_changes_sent |-> web_socket_throttle,
     last_heartbeat |-> web_socket_heartbeat,
     next_event |-> web_socket_heartbeat,
     waited |-> 0, silent |-> 0]

WsClosed == [WsStart EXCEPT !.pc = "closed"]

StreamIdle ==
    /\ ws = WsClosed
    /\ ws_out = NoWsMessage

\* stream.rs:192-213: the end of an iteration, after the select!. `out` is
\* the last message sent so far; a failed send of the changes is only
\* logged, a failed Ping leaves the loop.
AfterEvent(w, out, send_ok) ==
    IF w.changed # {}
    THEN IF w.last_changes_sent >= web_socket_throttle
         THEN /\ ws' = [w EXCEPT !.changed = {},
                                 !.last_changes_sent = 0,
                                 !.last_heartbeat = 0,
                                 !.next_event = web_socket_heartbeat,
                                 !.waited = 0]
              /\ ws_out' = WsMessage("StateChange", w.changed)
         ELSE /\ ws' = [w EXCEPT !.next_event =
                                     web_socket_throttle - w.last_changes_sent,
                                 !.waited = 0]
              /\ ws_out' = out
    ELSE IF w.last_heartbeat > web_socket_heartbeat
         THEN /\ ws' = IF send_ok
                       THEN [w EXCEPT !.last_heartbeat = 0,
                                      !.next_event = web_socket_heartbeat,
                                      !.waited = 0]
                       ELSE [w EXCEPT !.pc = "closed"]
              /\ ws_out' = WsMessage("Ping", {})
         ELSE /\ ws' = [w EXCEPT !.waited = 0]
              /\ ws_out' = out

\* stream.rs:92-129, 134-143: what the handler answers to a frame
WsAnswer(frame, out) ==
    CASE frame.kind = "Request" -> WsMessage("Response", {})
      [] frame.kind = "FailingRequest" -> WsMessage("RequestError", {})
      [] frame.kind = "Invalid" -> WsMessage("RequestError", {})
      [] frame.kind = "Ping" -> WsMessage("Pong", {})
      [] OTHER -> out

\* stream.rs:116-121: the types PushEnable enables
EnabledTypes(data_types) ==
    IF data_types # {} THEN data_types ELSE DataTypes

\* stream.rs:87-148: a frame of the client is read. PushEnable and
\* PushDisable `continue`: last_request and the end of the iteration are
\* skipped. Close closes the stream and leaves the loop.
HandleFrame(frame, send_ok) ==
    /\ ws.pc = "loop"
    /\ LET w == [ws EXCEPT !.silent = 0]
       IN CASE frame.kind = "PushEnable" ->
                 /\ ws' = [w EXCEPT !.change_types =
                                        EnabledTypes(frame.data_types),
                                    !.waited = 0]
                 /\ UNCHANGED ws_out
            [] frame.kind = "PushDisable" ->
                 /\ ws' = [w EXCEPT !.change_types = {}, !.waited = 0]
                 /\ UNCHANGED ws_out
            [] frame.kind = "Close" ->
                 /\ ws' = [w EXCEPT !.pc = "closed"]
                 /\ ws_out' = WsMessage("Close", {})
            [] OTHER ->
                 AfterEvent([w EXCEPT !.last_request = 0,
                                      !.last_heartbeat = 0],
                            WsAnswer(frame, ws_out), send_ok)
    /\ UNCHANGED <<matchVars, searchVars, listVars, queryVars, callVars, bitmapVars>>

\* stream.rs:149-153: the stream fails or ends
StreamEnded ==
    /\ ws.pc = "loop"
    /\ ws' = [ws EXCEPT !.pc = "closed"]
    /\ UNCHANGED ws_out
    /\ UNCHANGED <<matchVars, searchVars, listVars, queryVars, callVars, bitmapVars>>

\* stream.rs:154-164: the timeout of the iteration elapsed
HandleTimeout(send_ok) ==
    /\ ws.pc = "loop"
    /\ ws.waited >= ws.next_event
    /\ IF ws.last_request > web_socket_timeout
       THEN /\ ws' = [ws EXCEPT !.pc = "closed"]
            /\ UNCHANGED ws_out
       ELSE AfterEvent(ws, ws_out, send_ok)
    /\ UNCHANGED <<matchVars, searchVars, listVars, queryVars, callVars, bitmapVars>>

\* stream.rs:174-179: every entry of the state change is set
SetChanged(changed, types) ==
    {p \in changed : \A q \in types : q.type # p.type} \cup types

\* stream.rs:167-180: a state change is received
HandleStateChange(types, send_ok) ==
    /\ ws.pc = "loop"
    /\ LET queue == /\ ws.change_types # {}
                    /\ \E p \in types : p.type \in ws.change_types
           w == IF queue
                THEN [ws EXCEPT !.changed = SetChanged(ws.changed, types)]
                ELSE ws
       IN AfterEvent(w, ws_out, send_ok)
    /\ UNCHANGED <<matchVars, searchVars, listVars, queryVars, callVars, bitmapVars>>

\* stream.rs:181-188: the subscription channel is closed
ChannelClosed ==
    /\ ws.pc = "loop"
    /\ ws' = [ws EXCEPT !.pc = "closed"]
    /\ UNCHANGED ws_out
    /\ UNCHANGED <<matchVars, searchVars, listVars, queryVars, callVars, bitmapVars>>

\* The clock advances by one tick while the handler waits in select!; it
\* does not pass the instant at which the timeout elapses.
Tick ==
    /\ ws.pc = "loop"
    /\ ws.waited < ws.next_event
    /\ ws' = [ws EXCEPT !.waited = @ + 1,
                        !.silent = Later(@),
                        !.last_request = Later(@),
                        !.last_changes_sent = Later(@),
                        !.last_heartbeat = Later(@)]
    /\ UNCHANGED ws_out
    /\ UNCHANGED <<matchVars, searchVars, listVars, queryVars, callVars, bitmapVars>>

(***************************************************************************)
(* FoundationDB: reading bitmaps, read.rs:76-140                           *)
(***************************************************************************)
BitmapKeys == {"k1", "k2", "k3"}
BlockNums == 0..1
BlockBits == 0..0

\* the number of bits a block holds
BlockSize == Cardinality(BlockBits)

\* the rows of one key: the bits set in each block (none: no row)
KeyBlocks == [BlockNums -> SUBSET BlockBits]

\* crate::Result<Option<RoaringBitmap>>
BitmapErr == [ok |-> FALSE, some |-> FALSE, bitmap |-> {}]
BitmapNone == [ok |-> TRUE, some |-> FALSE, bitmap |-> {}]
BitmapSome(bitmap) == [ok |-> TRUE, some |-> TRUE, bitmap |-> bitmap]

\* read.rs:76-105: the blocks of the key, from its block_num to u32::MAX,
\* are deserialized into one bitmap; an empty bitmap is None. The range
\* read of the key in `failing` fails.
get_bitmap(db, failing, key) ==
    LET bm == UNION {{b * BlockSize + i : i \in db[key][b]} : b \in BlockNums}
    IN IF key \in failing THEN BitmapErr
       ELSE IF bm # {} THEN BitmapSome(bm) ELSE BitmapNone

\* read.rs:107-118: the bitmaps of the keys, in the order of the keys
get_bitmaps(db, failing, keys) ==
    [k \in 1..Len(keys) |-> get_bitmap(db, failing, keys[k])]

RECURSIVE IntersectFrom(_, _, _)
\* read.rs:125-138: the loop over the bitmaps from the k-th on
IntersectFrom(bitmaps, k, result) ==
    IF k > Len(bitmaps) THEN result
    ELSE IF ~bitmaps[k].some THEN BitmapNone
    ELSE IF result.some
         THEN LET anded == BitmapSome(result.bitmap \cap bitmaps[k].bitmap)
              IN IF anded.bitmap = {} THEN anded
                 ELSE IntersectFrom(bitmaps, k + 1, anded)
         ELSE IntersectFrom(bitmaps, k + 1, bitmaps[k])

\* read.rs:120-140: an error of get_bitmaps is returned before the loop
get_bitmaps_intersection(db, failing, keys) ==
    LET bitmaps == get_bitmaps(db, failing, keys)
    IN IF \E k \in 1..Len(keys) : ~bitmaps[k].ok THEN BitmapErr
       ELSE IntersectFrom(bitmaps, 1, BitmapNone)

BitmapIdle ==
    /\ fdb = <<>>
    /\ bitmap_call = [keys |-> <<>>, failing |-> {}]
    /\ bitmap_pc = "done"
    /\ bitmap_out = BitmapNone

\* the call of get_bitmaps_intersection
CallIntersection ==
    /\ bitmap_pc = "call"
    /\ bitmap_pc' = "done"
    /\ bitmap_out' = get_bitmaps_intersection(fdb, bitmap_call.failing,
                                              bitmap_call.keys)
    /\ UNCHANGED <<fdb, bitmap_call>>
    /\ UNCHANGED <<matchVars, searchVars, listVars, queryVars, callVars, streamVars>>

(***************************************************************************)
(* SEARCH: the id mapper, search.rs:672-742                                *)
(***************************************************************************)
NoMapped == [some |-> FALSE, id |-> 0, imap_id |-> ImapId(0, 0)]
Mapped(id, imap_id) == [some |-> TRUE, id |-> id, imap_id |-> imap_id]

\* A mapper that answers with the sequence number whatever is_uid is.
map_result_id_seqnum(state, document_id, is_uid) ==
    IF document_id \in DOMAIN state.id_to_imap
    THEN LET imap_id == state.id_to_imap[document_id]
         IN Mapped(imap_id.seqnum, imap_id)
    ELSE NoMapped

\* A mapping that never consults next_state.
map_result_id_no_next(state, document_id, is_uid) ==
    IF document_id \in DOMAIN state.id_to_imap
    THEN LET imap_id == state.id_to_imap[document_id]
         IN Mapped(IF is_uid THEN imap_id.uid ELSE imap_id.seqnum, imap_id)
    ELSE NoMapped

\* search.rs:728-741
map_result_id(state, document_id, is_uid) ==
    IF document_id \in DOMAIN state.id_to_imap
    THEN LET imap_id == state.id_to_imap[document_id]
         IN Mapped(IF is_uid THEN imap_id.uid ELSE imap_id.seqnum, imap_id)
    ELSE IF is_uid
    THEN IF state.has_next /\ document_id \in DOMAIN state.next_id_to_imap
         THEN LET imap_id == state.next_id_to_imap[document_id]
              IN Mapped(imap_id.uid, imap_id)
         ELSE NoMapped
    ELSE NoMapped

\* A minimum that is the last mapped id seen.
NewMinLast(find_min, prev, m) == IF find_min THEN m ELSE prev

\* search.rs:689-697 and 698-706: min and max after the mapped id m
NewMin(find_min, prev, m) ==
    IF find_min /\ (~prev.some \/ m.id < prev.id) THEN m ELSE prev

NewMax(find_max, prev, m) ==
    IF find_max /\ (~prev.some \/ m.id > prev.id) THEN m ELSE prev

\* search.rs:686-715: the loop over the document ids, from ids[k] on
\* search.rs:687-714: the body of the loop for what map_result_id
\* returned for the document
MapOne(find_min, find_max, acc, m) ==
    IF ~m.some
    THEN acc
    ELSE IF find_min \/ find_max
    THEN [acc EXCEPT !.min = NewMin(find_min, @, m),
                     !.max = NewMax(find_max, @, m),
                     !.total = @ + 1]
    ELSE [acc EXCEPT !.imap_ids = Append(@, m.id),
                     !.saved_results =
                         IF acc.saving THEN Append(@, m.imap_id) ELSE @,
                     !.total = @ + 1]

RECURSIVE MapLoop(_, _, _, _, _, _, _)
MapLoop(state, ids, k, is_uid, find_min, find_max, acc) ==
    IF k > Len(ids)
    THEN acc
    ELSE MapLoop(state, ids, k + 1, is_uid, find_min, find_max,
                 MapOne(find_min, find_max, acc,
                        map_result_id(state, ids[k], is_uid)))

\* search.rs:716-723: min and max, when found, are pushed onto the lists
PushMinMax(acc, m) ==
    IF m.some
    THEN [acc EXCEPT !.imap_ids = Append(@, m.id),
                     !.saved_results =
                         IF acc.saving THEN Append(@, m.imap_id) ELSE @]
    ELSE acc

\* search.rs:716-723, after the loop
PushFound(find_min, find_max, acc) ==
    IF find_min \/ find_max
    THEN PushMinMax(PushMinMax(acc, acc.min), acc.max)
    ELSE acc

\* search.rs:672-724. saving is saved_results.is_some().
map_search_results(state, ids, is_uid, find_min, find_max, saving) ==
    PushFound(find_min, find_max,
              MapLoop(state, ids, 1, is_uid, find_min, find_max,
                      [min |-> NoMapped, max |-> NoMapped, total |-> 0,
                       imap_ids |-> <<>>, saved_results |-> <<>>,
                       saving |-> saving]))

(***************************************************************************)
(* SEARCH: the executor, search.rs:118-246                                 *)
(***************************************************************************)
\* a set of numbers as the ascending sequence a RoaringBitmap iterates
RECURSIVE Ascending(_)
Ascending(set) ==
    IF set = {}
    THEN <<>>
    ELSE LET lo == CHOOSE x \in set : \A y \in set : x <= y
         IN <<lo>> \o Ascending(set \ {lo})

\* the store's sort(result_set, comparators, pagination), search.rs:154-187:
\* the model's store orders by descending document id.
RECURSIVE StoreSort(_)
StoreSort(set) ==
    IF set = {}
    THEN <<>>
    ELSE LET hi == CHOOSE x \in set : \A y \in set : x >= y
         IN <<hi>> \o StoreSort(set \ {hi})

\* imap_ids.sort_unstable(), search.rs:212
RECURSIVE SortUnstable(_)
SortUnstable(seq) ==
    IF seq = <<>>
    THEN <<>>
    ELSE LET k == CHOOSE i \in 1..Len(seq) : \A j \in 1..Len(seq) : seq[i] <= seq[j]
         IN <<seq[k]>> \o SortUnstable(SubSeq(seq, 1, k - 1) \o SubSeq(seq, k + 1, Len(seq)))

NoNum == [some |-> FALSE, v |-> 0]
SomeNum(v) == [some |-> TRUE, v |-> v]

\* synchronize_messages(&mailbox).to_modseq(), search.rs:133-136
HighestModseq == 42

\* search.rs:131-139, 186 and 217-245: the failures after query() and the
\* response, for the result q of query() and the lists m of
\* map_search_results
SearchResponse(arguments, fail, q, m) ==
    IF ~q.ok
    THEN [ok |-> FALSE, err |-> q.err, saved_results |-> <<>>,
          response |-> <<>>]
    ELSE IF (q.include_highest_modseq /\ fail = "sync")
            \/ (arguments.sort /\ fail = "sort")
    THEN [ok |-> FALSE, err |-> "Database failure.", saved_results |-> <<>>,
          response |-> <<>>]
    ELSE [ok |-> TRUE, err |-> "",
          saved_results |-> m.saved_results,
          response |->
            <<[is_uid |-> arguments.is_uid,
               min |-> IF m.min.some THEN SomeNum(m.min.id) ELSE NoNum,
               max |-> IF m.max.some THEN SomeNum(m.max.id) ELSE NoNum,
               count |-> IF "Count" \in arguments.result_options
                         THEN SomeNum(m.total) ELSE NoNum,
               ids |-> IF arguments.result_options = {}
                          \/ "All" \in arguments.result_options
                       THEN IF arguments.sort THEN m.imap_ids
                            ELSE SortUnstable(m.imap_ids)
                       ELSE <<>>,
               is_sort |-> arguments.sort,
               highest_modseq |-> IF q.include_highest_modseq
                                  THEN SomeNum(HighestModseq) ELSE NoNum]>>]

\* search.rs:152-214: the result set q of query() is mapped, in the order
\* of the store's sort or in that of the bitmap
SearchMapped(arguments, mbox, saving, fail, q) ==
    SearchResponse(arguments, fail, q,
                   map_search_results(mbox.state,
                                      IF arguments.sort THEN StoreSort(q.results)
                                      ELSE Ascending(q.results),
                                      arguments.is_uid,
                                      "Min" \in arguments.result_options,
                                      "Max" \in arguments.result_options,
                                      saving))

\* search.rs:118-246, up to the publication of the result. arguments is
\* [is_uid, sort, result_options, filter]; saving is results_tx.is_some().
\* The result is Err(err), or Ok(response) with the list to save.
search(arguments, mbox, saving, prev_saved_search, fail) ==
    SearchMapped(arguments, mbox, saving, fail,
                 query(arguments.filter, mbox, prev_saved_search, fail))

(***************************************************************************)
(* SEARCH: the session, the spawned tasks and the saved-search slot        *)
(***************************************************************************)
Arguments(is_uid, sort, result_options, filter) ==
    [is_uid |-> is_uid, sort |-> sort, result_options |-> result_options,
     filter |-> filter]

\* The commands the session of the model issues.
SessionCommands ==
    {Arguments(TRUE, FALSE, {"Save"}, <<FilterAll>>),
     Arguments(TRUE, FALSE, {"Save"}, <<FilterSavedSearch>>),
     Arguments(FALSE, FALSE, {"Save"}, <<FilterHeader("Foo")>>),
     Arguments(FALSE, TRUE, {"Save"}, <<FilterModSeq(40)>>),
     Arguments(FALSE, FALSE, {}, <<FilterFlagged>>)}

\* watch::channel(Arc::new(Vec::new())), search.rs:69
NewChannel == [value |-> <<>>, changed |-> FALSE, closed |-> FALSE]
NoChannel == [value |-> <<>>, changed |-> FALSE, closed |-> TRUE]

\* tokio::spawn, search.rs:76-109: a task about to poll search()
\* waited_rx is the receiver get_saved_search waited on (0: it did not wait).
Spawn(arguments, results_tx, prev_saved_search, waited_rx) ==
    Append(tasks, [arguments |-> arguments, results_tx |-> results_tx,
                   prev_saved_search |-> prev_saved_search,
                   waited_rx |-> waited_rx, pc |-> "search",
                   ok |-> FALSE, err |-> "", saved_results |-> <<>>,
                   response |-> <<>>])

\* search.rs:657-665: what get_saved_search returns without waiting
SlotValue == IF saved_search.kind = "Results"
             THEN SomeOpt(saved_search.items) ELSE NoneOpt

\* search.rs:666-668: rx.changed().await returns when the sender has sent
\* or is dropped; the value borrowed is the channel's current value.
Woken(rx) == channels[rx].changed \/ channels[rx].closed
Borrow(rx) == SomeOpt(channels[rx].value)

\* search.rs:62-76: handle_search up to the first read of the slot. Without
\* SAVE the task is spawned at once; with SAVE get_saved_search reads the
\* slot under its lock and either returns or waits on the receiver.
HandleSearch(arguments) ==
    /\ session.pc = "idle"
    /\ Len(tasks) < MaxCmds
    /\ IF "Save" \notin arguments.result_options
       THEN /\ tasks' = Spawn(arguments, 0, NoPrev, 0)
            /\ channels' = Append(channels, NoChannel)
            /\ UNCHANGED session
       ELSE /\ session' =
                 IF saved_search.kind = "InFlight"
                 THEN [pc |-> "changed", arguments |-> <<arguments>>,
                       rx |-> saved_search.rx, prev |-> NoPrev]
                 ELSE [pc |-> "install", arguments |-> <<arguments>>,
                       rx |-> 0, prev |-> Prev(SlotValue)]
            /\ UNCHANGED <<tasks, channels>>
    /\ UNCHANGED <<matchVars, listVars, queryVars, callVars, streamVars, bitmapVars>>
    /\ UNCHANGED <<mailbox, saved_search, sink>>

\* search.rs:666-668 in handle_search's get_saved_search
SessionChanged ==
    /\ session.pc = "changed"
    /\ Woken(session.rx)
    /\ session' = [session EXCEPT !.pc = "install",
                                  !.prev = Prev(Borrow(session.rx))]
    /\ UNCHANGED <<matchVars, listVars, queryVars, callVars, streamVars, bitmapVars>>
    /\ UNCHANGED <<mailbox, saved_search, channels, tasks, sink>>

\* search.rs:69-76: the new channel, the InFlight marker and the spawn
SessionInstall ==
    /\ session.pc = "install"
    /\ channels' = Append(channels, NewChannel)
    /\ saved_search' = SavedInFlight(Len(channels) + 1)
    /\ tasks' = Spawn(session.arguments[1], Len(channels) + 1, session.prev,
                      session.rx)
    /\ session' = [pc |-> "idle", arguments |-> <<>>, rx |-> 0, prev |-> NoPrev]
    /\ UNCHANGED <<matchVars, listVars, queryVars, callVars, streamVars, bitmapVars>>
    /\ UNCHANGED <<mailbox, sink>>

Saving(t) == tasks[t].results_tx # 0

SearchOf(t, fail) ==
    search(tasks[t].arguments, mailbox, Saving(t), tasks[t].prev_saved_search, fail)

\* search.rs:219-221: the slot a successful search stores
PublishedSlot(saved_results) == SavedResults(saved_results)

\* search.rs:217-223: the task after search() returned Ok(r)
SearchReturnedOk(t, r) ==
    /\ r.ok
    /\ tasks' = [tasks EXCEPT ![t].pc = IF Saving(t) THEN "send" ELSE "write",
                              ![t].ok = TRUE,
                              ![t].saved_results = r.saved_results,
                              ![t].response = r.response]
    /\ saved_search' = IF Saving(t) THEN PublishedSlot(r.saved_results)
                       ELSE saved_search

\* search.rs:78-97, 118-221: search() runs and succeeds; with SAVE the
\* result is stored in the slot.
TaskSearchOk(t) ==
    /\ tasks[t].pc = "search"
    /\ SearchReturnedOk(t, SearchOf(t, "none"))
    /\ UNCHANGED <<matchVars, listVars, queryVars, callVars, streamVars, bitmapVars>>
    /\ UNCHANGED <<mailbox, channels, session, sink>>

\* A producer that drops the sender without sending the list.
SendChannelNotSent(ch, saved_results) == [ch EXCEPT !.closed = TRUE]

\* search.rs:222: results_tx.send(saved_results), then the sender is dropped
SendChannel(ch, saved_results) ==
    [value |-> saved_results, changed |-> TRUE, closed |-> TRUE]

TaskSend(t) ==
    /\ tasks[t].pc = "send"
    /\ channels' = [channels EXCEPT ![tasks[t].results_tx] =
                        SendChannel(@, tasks[t].saved_results)]
    /\ tasks' = [tasks EXCEPT ![t].pc = "write"]
    /\ UNCHANGED <<matchVars, listVars, queryVars, callVars, streamVars, bitmapVars>>
    /\ UNCHANGED <<mailbox, saved_search, session, sink>>

\* search.rs:127-129, 133-134, 186: search() returns Err; results_tx, which
\* search() owns, is dropped as it returns.
DropChannel(ch) == [ch EXCEPT !.closed = TRUE]

\* search.rs:98: the task after search() returned Err(r.err)
SearchReturnedErr(t, r) ==
    /\ ~r.ok
    /\ tasks' = [tasks EXCEPT ![t].pc = IF Saving(t) THEN "restore" ELSE "write",
                              ![t].err = r.err]

TaskSearchErr(t) ==
    /\ tasks[t].pc = "search"
    /\ \E fail \in FailPoints : SearchReturnedErr(t, SearchOf(t, fail))
    /\ channels' = IF Saving(t)
                   THEN [channels EXCEPT ![tasks[t].results_tx] = DropChannel(@)]
                   ELSE channels
    /\ UNCHANGED <<matchVars, listVars, queryVars, callVars, streamVars, bitmapVars>>
    /\ UNCHANGED <<mailbox, saved_search, session, sink>>

\* search.rs:99-104: the slot the Err arm stores
RestoredSlot(prev_saved_search) ==
    IF prev_saved_search.some
    THEN SavedResults(prev_saved_search.items)
    ELSE SavedNone

TaskRestore(t) ==
    /\ tasks[t].pc = "restore"
    /\ saved_search' = RestoredSlot(tasks[t].prev_saved_search)
    /\ tasks' = [tasks EXCEPT ![t].pc = "write"]
    /\ UNCHANGED <<matchVars, listVars, queryVars, callVars, streamVars, bitmapVars>>
    /\ UNCHANGED <<mailbox, channels, session, sink>>

\* A writer that sends the bytes twice.
WriteBytesTwice(out, bytes) == Append(Append(out, bytes), bytes)

\* data.write_bytes(bytes), search.rs:108: one write to the session's sink
WriteBytes(out, bytes) == Append(out, bytes)

\* search.rs:108: data.write_bytes(bytes)
TaskWrite(t) ==
    /\ tasks[t].pc = "write"
    /\ sink' = WriteBytes(sink, [tag |-> t, ok |-> tasks[t].ok,
                                 response |-> tasks[t].response])
    /\ tasks' = [tasks EXCEPT ![t].pc = "done"]
    /\ UNCHANGED <<matchVars, listVars, queryVars, callVars, streamVars, bitmapVars>>
    /\ UNCHANGED <<mailbox, saved_search, channels, session>>

\* A list an earlier SAVE search of the session left in the slot.
EarlierSaved == <<ImapId(11, 1)>>

SearchInit ==
    /\ mailbox = SelectedMailbox
    /\ saved_search \in {SavedNone, SavedResults(EarlierSaved)}
    /\ channels = <<>>
    /\ session = [pc |-> "idle", arguments |-> <<>>, rx |-> 0, prev |-> NoPrev]
    /\ tasks = <<>>
    /\ sink = <<>>

Init ==
    /\ StreamIdle
    /\ BitmapIdle
    /\ patterns = <<>>
    /\ mailbox_name = <<>>
    /\ match_pc = "done"
    /\ match_result = TRUE
    /\ SearchInit
    /\ ListIdle
    /\ QueryIdle
    /\ CallIdle

TaskNext(t) ==
    \/ TaskSearchErr(t)
    \/ TaskSearchOk(t)
    \/ TaskSend(t)
    \/ TaskRestore(t)
    \/ TaskWrite(t)

Next ==
    \/ \E arguments \in SessionCommands : HandleSearch(arguments)
    \/ SessionChanged
    \/ SessionInstall
    \/ \E t \in 1..Len(tasks) : TaskSearchOk(t)
    \/ \E t \in 1..Len(tasks) : TaskSend(t)
    \/ \E t \in 1..Len(tasks) : TaskSearchErr(t)
    \/ \E t \in 1..Len(tasks) : TaskRestore(t)
    \/ \E t \in 1..Len(tasks) : TaskWrite(t)

Spec == Init /\ [][Next]_vars

\* The runtime polls every spawned task and the session task when they can
\* run, and every store access of a task returns.
TaskStep(t) == t \in 1..Len(tasks) /\ TaskNext(t)

FairSpec ==
    /\ Spec
    /\ WF_vars(SessionChanged)
    /\ WF_vars(SessionInstall)
    /\ \A t \in 1..MaxCmds : WF_vars(TaskStep(t))

(***************************************************************************)
(* A session whose commands are SAVE searches on ALL and on `$`, with the  *)
(* fairness of FairSpec                                                    *)
(***************************************************************************)
DollarCommands ==
    {Arguments(TRUE, FALSE, {"Save"}, <<FilterAll>>),
     Arguments(TRUE, FALSE, {"Save"}, <<FilterSavedSearch>>)}

DollarNext ==
    \/ \E arguments \in DollarCommands : HandleSearch(arguments)
    \/ SessionChanged
    \/ SessionInstall
    \/ \E t \in 1..Len(tasks) : TaskNext(t)

DollarSpec ==
    /\ Init /\ [][DollarNext]_vars
    /\ WF_vars(SessionChanged)
    /\ WF_vars(SessionInstall)
    /\ \A t \in 1..MaxCmds : WF_vars(TaskStep(t))

(***************************************************************************)
(* Specification of a WebSocket connection: frames, state changes and the  *)
(* clock; with fairness, the clock advances and a timeout that elapses     *)
(* again and again is handled; the quiet connection receives no state      *)
(* change                                                                  *)
(***************************************************************************)
\* stream.rs:65-83: the subscription succeeds and the loop is entered, or
\* the error is sent and the handler returns
WebSocketInit ==
    /\ patterns = <<>>
    /\ mailbox_name = <<>>
    /\ match_pc = "done"
    /\ match_result = TRUE
    /\ SearchInit
    /\ ListIdle
    /\ QueryIdle
    /\ CallIdle
    /\ BitmapIdle
    /\ \/ ws = WsStart /\ ws_out = NoWsMessage
       \/ ws = WsClosed /\ ws_out = WsMessage("RequestError", {})

WebSocketNext ==
    \/ \E frame \in WsFrames, send_ok \in BOOLEAN : HandleFrame(frame, send_ok)
    \/ StreamEnded
    \/ \E send_ok \in BOOLEAN : HandleTimeout(send_ok)
    \/ \E types \in StateChanges, send_ok \in BOOLEAN : HandleStateChange(types, send_ok)
    \/ ChannelClosed
    \/ Tick

WebSocketSpec == WebSocketInit /\ [][WebSocketNext]_vars

WebSocketFairSpec ==
    /\ WebSocketSpec
    /\ WF_vars(Tick)
    /\ SF_vars(\E send_ok \in BOOLEAN : HandleTimeout(send_ok))

WebSocketQuietNext ==
    \/ \E frame \in WsFrames, send_ok \in BOOLEAN : HandleFrame(frame, send_ok)
    \/ StreamEnded
    \/ \E send_ok \in BOOLEAN : HandleTimeout(send_ok)
    \/ ChannelClosed
    \/ Tick

WebSocketQuietSpec ==
    /\ WebSocketInit /\ [][WebSocketQuietNext]_vars
    /\ WF_vars(Tick)
    /\ SF_vars(\E send_ok \in BOOLEAN : HandleTimeout(send_ok))

(***************************************************************************)
(* Specification of get_bitmaps_intersection: one call on any stored       *)
(* bitmaps and any list of up to MaxKeys keys                              *)
(***************************************************************************)
BitmapInit ==
    /\ patterns = <<>>
    /\ mailbox_name = <<>>
    /\ match_pc = "done"
    /\ match_result = TRUE
    /\ SearchInit
    /\ ListIdle
    /\ QueryIdle
    /\ CallIdle
    /\ StreamIdle
    /\ fdb \in [BitmapKeys -> KeyBlocks]
    /\ bitmap_call \in [keys : SeqsUpTo(BitmapKeys, MaxKeys),
                        failing : {{}} \cup {{k} : k \in BitmapKeys}]
    /\ bitmap_pc = "call"
    /\ bitmap_out = BitmapNone

BitmapSpec == BitmapInit /\ [][CallIntersection]_vars

(***************************************************************************)
(* Cancellation: the session is dropped and its spawned tasks are aborted. *)
(* An aborted task is dropped at the await it is suspended in: the awaits  *)
(* of search() (search.rs:78-86) or write_bytes (search.rs:108). Nothing   *)
(* after that await runs; what the future owns, results_tx included, is    *)
(* dropped.                                                                *)
(***************************************************************************)
SessionDrop ==
    /\ session.pc # "dropped"
    /\ session' = [session EXCEPT !.pc = "dropped"]
    /\ UNCHANGED <<matchVars, listVars, queryVars, callVars, streamVars, bitmapVars>>
    /\ UNCHANGED <<mailbox, saved_search, channels, tasks, sink>>

AbortTask(t) ==
    /\ session.pc = "dropped"
    /\ tasks[t].pc \in {"search", "write"}
    /\ tasks' = [tasks EXCEPT ![t].pc = "aborted"]
    /\ channels' = IF tasks[t].pc = "search" /\ Saving(t)
                   THEN [channels EXCEPT ![tasks[t].results_tx] = DropChannel(@)]
                   ELSE channels
    /\ UNCHANGED <<matchVars, listVars, queryVars, callVars, streamVars, bitmapVars>>
    /\ UNCHANGED <<mailbox, saved_search, session, sink>>

CancelNext ==
    \/ Next
    \/ SessionDrop
    \/ \E t \in 1..Len(tasks) : AbortTask(t)

CancelSpec == Init /\ [][CancelNext]_vars

(***************************************************************************)
(* Specification of the matcher: a call on any bounded input               *)
(***************************************************************************)
MatchInit ==
    /\ StreamIdle
    /\ BitmapIdle
    /\ \/ patterns \in SinglePatternLists /\ mailbox_name \in Names
       \/ patterns \in PatternLists /\ mailbox_name \in ListNames
    /\ match_pc = "call"
    /\ match_result = FALSE
    /\ SearchInit
    /\ saved_search = SavedNone
    /\ ListIdle
    /\ QueryIdle
    /\ CallIdle

CallMatchesPattern ==
    /\ match_pc = "call"
    /\ match_pc' = "done"
    /\ match_result' = matches_pattern(patterns, mailbox_name)
    /\ UNCHANGED <<patterns, mailbox_name>>
    /\ UNCHANGED <<searchVars, listVars, queryVars, callVars, streamVars, bitmapVars>>

MatchNext == CallMatchesPattern

MatchSpec == MatchInit /\ [][MatchNext]_vars

(***************************************************************************)
(* Specification of LIST: one LIST or LSUB request on any input            *)
(***************************************************************************)
ListInit ==
    /\ StreamIdle
    /\ BitmapIdle
    /\ patterns = <<>>
    /\ mailbox_name = <<>>
    /\ match_pc = "done"
    /\ match_result = TRUE
    /\ SearchInit
    /\ saved_search = SavedNone
    /\ list_request \in ListRequests
    /\ imap \in {ImapConfig(name_all_enable) :
                    name_all_enable \in
                        IF list_request.arguments.return_options = {}
                        THEN BOOLEAN ELSE {TRUE}}
    /\ mailboxes \in Namespaces
    /\ status_fails \in
           IF "Status" \in list_request.arguments.return_options
           THEN StatusFailures ELSE {{}}
    /\ list_pc = "call"
    /\ list_items = <<>>
    /\ status_items = <<>>
    /\ list_sink = <<>>
    /\ list_calls = NoCalls
    /\ QueryIdle
    /\ CallIdle

ListNext ==
    \/ HandleList
    \/ ListRefresh
    \/ ListProcess
    \/ ListStatus
    \/ ListWrite

ListSpec == ListInit /\ [][ListNext]_vars

(***************************************************************************)
(* Specification of query(): one call on any bounded input                 *)
(***************************************************************************)
QueryFilters ==
    {FilterAll, FilterFlagged, FilterSavedSearch, FilterHeader("Subject"),
     FilterHeader("Foo"), FilterModSeq(40), FilterModSeq(41)}

\* the search keys that compile to more than one atom, and HEADER with a value
CompoundFilters ==
    {FilterUnflagged, FilterUnseen, FilterOn(Day), FilterSentOn(Day),
     FilterNew, FilterOld, FilterText("x"),
     FilterHeaderValue("Subject", <<"x">>),
     FilterHeaderValue("Subject", <<"x", " ", "Y">>),
     FilterHeaderValue("Subject", <<"x", "x", "x">>),
     FilterHeaderValue("Subject", <<"x", " ", "x", "x", "x">>),
     FilterHeaderValue("Message-Id", <<"x", " ", "Y">>),
     FilterHeaderValue("Foo", <<"x">>)}

KeyFilters == QueryFilters \cup CompoundFilters

\* the lists of a parsed NOT, OR or parenthesised group: the markers of a
\* parsed list are balanced
GroupFilterLists ==
    {<<FilterMarker("Not"), f, FilterMarker("End")>> : f \in KeyFilters}
    \cup {<<FilterMarker(op), f, g, FilterMarker("End")>> :
              op \in {"And", "Or"}, f \in KeyFilters, g \in KeyFilters}
    \cup {<<FilterMarker("Not"), FilterMarker("Or"), f, g, FilterMarker("End"),
            FilterMarker("End")>> : f \in KeyFilters, g \in KeyFilters}
    \cup {<<f, FilterMarker("Not"), g, FilterMarker("End")>> :
              f \in KeyFilters, g \in KeyFilters}

\* the nonempty filter lists of a SEARCH command
QueryFilterLists ==
    (SeqsUpTo(KeyFilters, MaxFilters) \ {<<>>}) \cup GroupFilterLists

\* what handle_search passes for a command with SAVE
QueryPrevSaved ==
    {Prev(NoneOpt), Prev(SomeOpt(<<>>)), Prev(SomeOpt(<<ImapId(11, 1)>>))}

HasDollar(imap_filter) ==
    \E k \in 1..Len(imap_filter) : imap_filter[k] = FilterSavedSearch

\* The calls of query(). A `$` without SAVE resolves through
\* sequence_to_ids and is not among them.
QueryCalls ==
    {c \in [imap_filter : QueryFilterLists,
            prev_saved_search : QueryPrevSaved \cup {NoPrev},
            fail : {"none", "get_tag", "filter"}] :
        HasDollar(c.imap_filter) => c.prev_saved_search.save}

QueryInit ==
    /\ StreamIdle
    /\ BitmapIdle
    /\ patterns = <<>>
    /\ mailbox_name = <<>>
    /\ match_pc = "done"
    /\ match_result = TRUE
    /\ mailbox \in {SelectedMailbox, AllMailMailbox}
    /\ saved_search = SavedNone
    /\ channels = <<>>
    /\ session = [pc |-> "idle", arguments |-> <<>>, rx |-> 0, prev |-> NoPrev]
    /\ tasks = <<>>
    /\ sink = <<>>
    /\ ListIdle
    /\ query_call \in QueryCalls
    /\ query_pc = "call"
    /\ query_out = NoQueryOut
    /\ CallIdle

CallQuery ==
    /\ query_pc = "call"
    /\ query_pc' = "done"
    /\ query_out' = query(query_call.imap_filter, mailbox,
                          query_call.prev_saved_search, query_call.fail)
    /\ UNCHANGED query_call
    /\ UNCHANGED <<matchVars, searchVars, listVars, callVars, streamVars, bitmapVars>>

QueryNext == CallQuery

QuerySpec == QueryInit /\ [][QueryNext]_vars

(***************************************************************************)
(* Specification of query() on one HEADER key with any bounded value       *)
(***************************************************************************)
HeaderNames == {"Subject", "Message-Id", "Foo"}
HeaderValues == SeqsUpTo({"x", "Y", " "}, MaxValueLen)

HeaderInit ==
    /\ StreamIdle
    /\ BitmapIdle
    /\ patterns = <<>>
    /\ mailbox_name = <<>>
    /\ match_pc = "done"
    /\ match_result = TRUE
    /\ mailbox \in {SelectedMailbox, AllMailMailbox}
    /\ saved_search = SavedNone
    /\ channels = <<>>
    /\ session = [pc |-> "idle", arguments |-> <<>>, rx |-> 0, prev |-> NoPrev]
    /\ tasks = <<>>
    /\ sink = <<>>
    /\ ListIdle
    /\ \E header \in HeaderNames, value \in HeaderValues :
          query_call = [imap_filter |-> <<FilterHeaderValue(header, value)>>,
                        prev_saved_search |-> NoPrev, fail |-> "none"]
    /\ query_pc = "call"
    /\ query_out = NoQueryOut
    /\ CallIdle

HeaderSpec == HeaderInit /\ [][CallQuery]_vars

(***************************************************************************)
(* Specification of a session that runs SEARCH commands and a LIST or LSUB *)
(* at the same time: the tasks are spawned and polled independently        *)
(* (search.rs:76, list.rs:52).                                             *)
(***************************************************************************)
ConcurrentCommands ==
    {Arguments(TRUE, FALSE, {"Save"}, <<FilterAll>>),
     Arguments(FALSE, FALSE, {}, <<FilterFlagged>>)}

ConcurrentListRequests ==
    {r \in ListRequests :
        /\ r.parse_ok
        /\ r.arguments.reference_name = <<>>
        /\ r.arguments.mailbox_name = << <<"%">> >>
        /\ \/ r.command = "Lsub"
           \/ /\ r.is_rev2
              /\ ~r.arguments.basic
              /\ r.arguments.selection_options \in {{}, {"RecursiveMatch"}}
              /\ r.arguments.return_options \in {{}, {"Status"}}}

ConcurrentInit ==
    /\ StreamIdle
    /\ BitmapIdle
    /\ patterns = <<>>
    /\ mailbox_name = <<>>
    /\ match_pc = "done"
    /\ match_result = TRUE
    /\ SearchInit
    /\ saved_search = SavedNone
    /\ list_request \in ConcurrentListRequests
    /\ imap = ImapConfig(TRUE)
    /\ mailboxes = <<PersonalAccount([i \in 1..3 |-> TRUE]), SharedAccount>>
    /\ status_fails \in
           IF "Status" \in list_request.arguments.return_options
           THEN {{}, {<<"c">>}} ELSE {{}}
    /\ list_pc = "call"
    /\ list_items = <<>>
    /\ status_items = <<>>
    /\ list_sink = <<>>
    /\ list_calls = NoCalls
    /\ QueryIdle
    /\ CallIdle

ConcurrentNext ==
    \/ \E arguments \in ConcurrentCommands : HandleSearch(arguments)
    \/ SessionChanged
    \/ SessionInstall
    \/ \E t \in 1..Len(tasks) : TaskSearchErr(t)
    \/ \E t \in 1..Len(tasks) : TaskSearchOk(t)
    \/ \E t \in 1..Len(tasks) : TaskSend(t)
    \/ \E t \in 1..Len(tasks) : TaskRestore(t)
    \/ \E t \in 1..Len(tasks) : TaskWrite(t)
    \/ HandleList
    \/ ListRefresh
    \/ ListProcess
    \/ ListStatus
    \/ ListWrite

ConcurrentSpec == ConcurrentInit /\ [][ConcurrentNext]_vars

(***************************************************************************)
(* Specification of search(): one call on any bounded input                *)
(***************************************************************************)
ResultOptions == {"Min", "Max", "Count", "All", "Save"}

SearchFilterLists ==
    {<<FilterAll>>, <<FilterFlagged>>, <<FilterUnseen>>, <<FilterSavedSearch>>,
     <<FilterHeader("Message-Id")>>, <<FilterHeader("Foo")>>,
     <<FilterModSeq(40)>>, <<FilterModSeq(41)>>, <<FilterModSeq(42)>>,
     <<FilterAll, FilterModSeq(40)>>}

\* The calls of search() that handle_search makes: with SAVE the previous
\* saved search is passed (search.rs:66-74), without it None. A `$` without
\* SAVE resolves through sequence_to_ids and is not among them.
SearchCalls ==
    {c \in [arguments : {Arguments(is_uid, sort, result_options, filter) :
                            is_uid \in BOOLEAN, sort \in BOOLEAN,
                            result_options \in SUBSET ResultOptions,
                            filter \in SearchFilterLists},
            prev_saved_search : QueryPrevSaved \cup {NoPrev},
            fail : FailPoints] :
        /\ c.prev_saved_search.save <=> "Save" \in c.arguments.result_options
        /\ HasDollar(c.arguments.filter) => c.prev_saved_search.save}

SearchCallInit ==
    /\ StreamIdle
    /\ BitmapIdle
    /\ patterns = <<>>
    /\ mailbox_name = <<>>
    /\ match_pc = "done"
    /\ match_result = TRUE
    /\ mailbox \in {SelectedMailbox, AllMailMailbox}
    /\ saved_search = SavedNone
    /\ channels = <<>>
    /\ session = [pc |-> "idle", arguments |-> <<>>, rx |-> 0, prev |-> NoPrev]
    /\ tasks = <<>>
    /\ sink = <<>>
    /\ ListIdle
    /\ QueryIdle
    /\ search_call \in SearchCalls
    /\ search_pc = "call"
    /\ search_out = NoSearchOut
    /\ map_call = [document_id |-> 0, is_uid |-> FALSE]
    /\ map_pc = "done"
    /\ map_out = NoMapOut

\* search.rs:118-246; query_out is what its call of query() returned and
\* asked the store (search.rs:127-129)
CallSearch ==
    /\ search_pc = "call"
    /\ search_pc' = "done"
    /\ search_out' = search(search_call.arguments, mailbox,
                            "Save" \in search_call.arguments.result_options,
                            search_call.prev_saved_search, search_call.fail)
    /\ query_out' = query(search_call.arguments.filter, mailbox,
                          search_call.prev_saved_search, search_call.fail)
    /\ UNCHANGED <<search_call, query_call, query_pc, map_call, map_pc, map_out>>
    /\ UNCHANGED <<matchVars, searchVars, listVars, streamVars, bitmapVars>>

SearchCallNext == CallSearch

SearchCallSpec == SearchCallInit /\ [][SearchCallNext]_vars

(***************************************************************************)
(* Specification of map_result_id: one call on any bounded mailbox state   *)
(***************************************************************************)
MapDocuments == 1..MaxDocs
MapUids == 11..(10 + MaxDocs)

\* the uids of the documents of a mailbox: no two documents share one
UidAssignments ==
    UNION {{f \in [D -> MapUids] : \A a, b \in D : a # b => f[a] # f[b]} :
              D \in SUBSET MapDocuments}

\* MailboxState of an assignment: seqnums are dense in uid order,
\* uid_to_id and id_to_imap are mutual inverses. With has_next, next_state
\* knows one more document, delivered after the snapshot.
StateOf(f, has_next) ==
    LET seqnum(d) == Cardinality({e \in DOMAIN f : f[e] <= f[d]})
        id_to_imap == [d \in DOMAIN f |-> ImapId(f[d], seqnum(d))]
    IN [uid_to_id |-> [u \in {f[d] : d \in DOMAIN f} |->
                          CHOOSE d \in DOMAIN f : f[d] = u],
        id_to_imap |-> id_to_imap,
        has_next |-> has_next,
        next_id_to_imap |->
            IF has_next
            THEN id_to_imap @@ ((MaxDocs + 1) :>
                                    ImapId(11 + MaxDocs, Cardinality(DOMAIN f) + 1))
            ELSE id_to_imap]

MailboxStates == {StateOf(f, has_next) : f \in UidAssignments, has_next \in BOOLEAN}

MapInit ==
    /\ StreamIdle
    /\ BitmapIdle
    /\ patterns = <<>>
    /\ mailbox_name = <<>>
    /\ match_pc = "done"
    /\ match_result = TRUE
    /\ mailbox \in {[id |-> SelectedMailbox.id, state |-> st] : st \in MailboxStates}
    /\ saved_search = SavedNone
    /\ channels = <<>>
    /\ session = [pc |-> "idle", arguments |-> <<>>, rx |-> 0, prev |-> NoPrev]
    /\ tasks = <<>>
    /\ sink = <<>>
    /\ ListIdle
    /\ QueryIdle
    /\ SearchCallIdle
    /\ map_call \in [document_id : 1..(MaxDocs + 1), is_uid : BOOLEAN]
    /\ map_pc = "call"
    /\ map_out = NoMapOut

\* map_result_id (search.rs:728-741), and the resolution of the ImapId it
\* returned through uid_to_id as query() does it for a saved ImapId
\* (search.rs:286-292)
CallMapResultId ==
    /\ map_pc = "call"
    /\ map_pc' = "done"
    /\ map_out' =
          LET m == map_result_id(mailbox.state, map_call.document_id,
                                 map_call.is_uid)
          IN [some |-> m.some, id |-> m.id, imap_id |-> m.imap_id,
              resolved |-> IF m.some
                           THEN SavedToSet(mailbox.state, <<m.imap_id>>)
                           ELSE {}]
    /\ UNCHANGED <<map_call, search_call, search_pc, search_out>>
    /\ UNCHANGED <<matchVars, searchVars, listVars, queryVars, streamVars, bitmapVars>>

MapNext == CallMapResultId

MapSpec == MapInit /\ [][MapNext]_vars

(***************************************************************************)
(* Reference wildcard semantics                                            *)
(***************************************************************************)
RECURSIVE RefMatch(_, _, _, _)
RefMatch(p, n, i, j) ==
    IF i > Len(p)
    THEN j > Len(n)
    ELSE IF p[i] = "*"
    THEN \E k \in j..(Len(n) + 1) : RefMatch(p, n, i + 1, k)
    ELSE IF p[i] = "%"
    THEN \E k \in j..(Len(n) + 1) :
            /\ \A m \in j..(k - 1) : n[m] # "/"
            /\ RefMatch(p, n, i + 1, k)
    ELSE j <= Len(n) /\ n[j] = p[i] /\ RefMatch(p, n, i + 1, j + 1)

Count(s, ch) == Cardinality({k \in 1..Len(s) : s[k] = ch})

Called == match_pc = "done"

\* C8: for a single pattern P and a name N, matches_pattern([P], N) is true
\* exactly when N matches P under the reference wildcard semantics ('%' is
\* any run of bytes other than '/', '*' is any run of bytes).
C8_MatchesReference ==
    (Called /\ Len(patterns) = 1)
        => (match_result = RefMatch(patterns[1], mailbox_name, 1, 1))

\* C9: for a single pattern P without '*', a match implies that N has
\* exactly as many '/' bytes as P has: no '%' absorbs a '/'.
C9_PercentNeverCrossesSlash ==
    (Called /\ Len(patterns) = 1 /\ Count(patterns[1], "*") = 0
            /\ match_result = TRUE)
        => (Count(mailbox_name, "/") = Count(patterns[1], "/"))

\* C10: the empty pattern list matches every name, and a non-empty list
\* matches exactly when one of its patterns, alone, matches.
C10_ListIsDisjunction ==
    Called =>
        /\ (patterns = <<>> => match_result = TRUE)
        /\ (patterns # <<>> =>
              (match_result =
                 (\E k \in 1..Len(patterns) :
                     matches_pattern(<<patterns[k]>>, mailbox_name))))

\* a list of two patterns of which the first, alone, fails on the name and
\* the second matches it
C10_Witness ==
    /\ Called
    /\ Len(patterns) = 2
    /\ mailbox_name # <<>>
    /\ ~matches_pattern(<<patterns[1]>>, mailbox_name)
    /\ matches_pattern(<<patterns[2]>>, mailbox_name)
    /\ match_result = TRUE

IsLiteral(s) == \A k \in 1..Len(s) : ~IsWildcard(s[k])

StartsWith(n, l) == Len(l) <= Len(n) /\ SubSeq(n, 1, Len(l)) = l

EndsWith(n, t) ==
    Len(t) <= Len(n) /\ SubSeq(n, Len(n) - Len(t) + 1, Len(n)) = t

Occurs(n, t) ==
    \E k \in 1..(Len(n) - Len(t) + 1) : SubSeq(n, k, k + Len(t) - 1) = t

\* the pattern without its first and last byte
Middle(p) == SubSeq(p, 2, Len(p) - 1)

\* C11: a pattern '*' T with a literal tail T as its final segment matches
\* exactly the names that end with T; in a pattern '*' T '*' the tail T is
\* found wherever its first occurrence starts, so the pattern matches
\* exactly the names that contain T.
C11_TailAfterWildcard ==
    (Called /\ Len(patterns) = 1) =>
        LET p == patterns[1]
        IN /\ (Len(p) >= 2 /\ p[1] = "*" /\ IsLiteral(Tail(p)))
                => (match_result = EndsWith(mailbox_name, Tail(p)))
           /\ (Len(p) >= 3 /\ p[1] = "*" /\ p[Len(p)] = "*"
                 /\ IsLiteral(Middle(p)))
                => (match_result = Occurs(mailbox_name, Middle(p)))

\* the pattern without its last byte
Front(p) == SubSeq(p, 1, Len(p) - 1)

\* the name after its first n bytes
Rest(name, n) == SubSeq(name, n + 1, Len(name))

\* C12: a literal L followed by one final '%' matches exactly the names
\* that start with L and have no '/' after it; L followed by one final '*'
\* matches exactly the names that start with L.
C12_LiteralThenFinalWildcard ==
    (Called /\ Len(patterns) = 1 /\ Len(patterns[1]) >= 1
            /\ IsLiteral(Front(patterns[1]))) =>
        LET p == patterns[1]
            l == Front(p)
        IN /\ (p[Len(p)] = "%") =>
                (match_result =
                    (/\ StartsWith(mailbox_name, l)
                     /\ Count(Rest(mailbox_name, Len(l)), "/") = 0))
           /\ (p[Len(p)] = "*") =>
                (match_result = StartsWith(mailbox_name, l))

\* "a/%" on a name below "a/" that has a deeper level: no match
C12_Witness ==
    /\ Called
    /\ patterns = << <<"a", "/", "%">> >>
    /\ mailbox_name = <<"a", "/", "b", "/">>
    /\ match_result = FALSE

(***************************************************************************)
(* LIST: the claims                                                        *)
(***************************************************************************)
ListDone == list_pc = "done"

\* the request reached the list task of list(), not the separator answer
EngineRequest ==
    list_request.parse_ok /\ ~is_separator_query(list_request.arguments)

RequestOptions == ListOptions(list_request.arguments, list_request.is_rev2)

\* the list items of the responses written
EmittedItems ==
    UNION {{list_sink[r].list_items[k] : k \in 1..Len(list_sink[r].list_items)} :
              r \in 1..Len(list_sink)}

\* the mailboxes of the namespace: account a, k-th name
NamespaceMailboxes ==
    UNION {{[a |-> a, k |-> k] : k \in 1..Len(mailboxes[a].mailbox_names)} :
              a \in 1..Len(mailboxes)}

NameOf(m) == mailboxes[m.a].mailbox_names[m.k].name

IsSubscribed(m) ==
    mailboxes[m.a].mailbox_state[mailboxes[m.a].mailbox_names[m.k].id].is_subscribed

\* another name of the same account begins with the name plus '/' and
\* belongs to a subscribed mailbox
HasSubscribedDescendant(m) ==
    \E d \in NamespaceMailboxes :
        /\ d.a = m.a
        /\ d.k # m.k
        /\ StartsWith(NameOf(d), NameOf(m) \o <<"/">>)
        /\ IsSubscribed(d)

HasChildInfo(item) ==
    \E t \in 1..Len(item.tags) : item.tags[t] = "ChildInfoSubscribed"

\* C13: with the Subscribed selection option every emitted mailbox is
\* subscribed, or RecursiveMatch is set and it has a subscribed descendant;
\* a mailbox emitted for the second reason carries CHILDINFO SUBSCRIBED.
C13_SubscribedFilter ==
    (EngineRequest /\ RequestOptions.filter_subscribed) =>
        \A item \in EmittedItems :
            \E m \in NamespaceMailboxes :
                /\ NameOf(m) = item.mailbox_name
                /\ \/ IsSubscribed(m)
                   \/ /\ RequestOptions.recursive_match
                      /\ HasSubscribedDescendant(m)
                      /\ HasChildInfo(item)

\* an unsubscribed mailbox listed, with the tag, for its subscribed child
C13_Witness ==
    /\ ListDone
    /\ EngineRequest
    /\ RequestOptions.filter_subscribed
    /\ \E item \in EmittedItems : \E m \in NamespaceMailboxes :
          /\ NameOf(m) = item.mailbox_name
          /\ ~IsSubscribed(m)
          /\ HasSubscribedDescendant(m)
          /\ HasChildInfo(item)

RecursiveMatchAlone ==
    /\ list_request.parse_ok
    /\ "RecursiveMatch" \in list_request.arguments.selection_options
    /\ "Subscribed" \notin list_request.arguments.selection_options

RecursiveMatchBad ==
    FailedList(list_request, "BAD",
               "RECURSIVEMATCH cannot be the only selection option.")

\* C15 as stated: a LIST with RecursiveMatch and without Subscribed ends
\* with the single tagged BAD response, without list or status items.
C15_RecursiveMatchAloneIsBad ==
    (ListDone /\ RecursiveMatchAlone) => list_sink = <<RecursiveMatchBad>>

\* C15, amended: such a LIST ends with a single response. When it is not a
\* separator query and the refresh of the mailboxes succeeds, the response
\* is the tagged BAD; when the refresh fails it is the error of the
\* refresh; neither carries a list or status item. A separator query is
\* answered as a separator query.
C15_RecursiveMatchAloneFails ==
    (ListDone /\ RecursiveMatchAlone) =>
        /\ Len(list_sink) = 1
        /\ IF is_separator_query(list_request.arguments)
           THEN list_sink[1] = CompletedList(list_request, <<SeparatorItem>>, <<>>)
           ELSE /\ list_sink[1].list_items = <<>>
                /\ list_sink[1].status_items = <<>>
                /\ list_sink[1].kind # "OK"
                /\ list_calls.refresh_ok => list_sink[1] = RecursiveMatchBad
                /\ ~list_calls.refresh_ok => list_sink[1].kind = "NO"

C15_Witness ==
    /\ ListDone
    /\ RecursiveMatchAlone
    /\ list_calls.refresh_ok
    /\ list_sink = <<RecursiveMatchBad>>

\* the names the engine synthesizes
SynthesizedNames ==
    {imap.name_all, imap.name_shared}
        \cup {mailboxes[a].prefix : a \in {x \in 1..Len(mailboxes) :
                                              mailboxes[x].has_prefix}}

\* C16: every mailbox an LSUB emits is subscribed, and the All Mail, shared
\* folder and account prefix names are not emitted.
C16_LsubOnlySubscribed ==
    (list_request.command = "Lsub" /\ EngineRequest) =>
        \A item \in EmittedItems :
            /\ item.mailbox_name \notin SynthesizedNames
            /\ \E m \in NamespaceMailboxes :
                  NameOf(m) = item.mailbox_name /\ IsSubscribed(m)

\* an LSUB on "*" with All Mail enabled that lists a mailbox and leaves out
\* an unsubscribed one
C16_Witness ==
    /\ ListDone
    /\ list_request.command = "Lsub"
    /\ list_request.arguments.mailbox_name = << <<"*">> >>
    /\ imap.name_all_enable
    /\ Len(list_sink) = 1
    /\ list_sink[1].kind = "OK"
    /\ list_sink[1].list_items # <<>>
    /\ \E m \in NamespaceMailboxes : ~IsSubscribed(m)

\* the status items of the list items whose status query succeeds, in the
\* order of the list items
RECURSIVE SucceededStatus(_, _)
SucceededStatus(items, k) ==
    IF k > Len(items)
    THEN <<>>
    ELSE (IF items[k].mailbox_name \in status_fails
          THEN <<>> ELSE <<StatusItem(items[k].mailbox_name)>>)
         \o SucceededStatus(items, k + 1)

\* C17: with a STATUS return option, failures of the status query leave the
\* list items as they are and the LIST completes OK with a status item for
\* exactly the list items whose query succeeded, in list-item order.
C17_StatusFailuresAreSkipped ==
    (ListDone /\ EngineRequest /\ RequestOptions.include_status
        /\ list_calls.read_mailboxes) =>
        LET items == ListItems(list_request.arguments, list_request.is_rev2,
                               imap, mailboxes)
        IN list_sink = <<CompletedList(list_request, items,
                                       SucceededStatus(items, 1))>>

\* some status queries failed and some succeeded
C17_Witness ==
    /\ ListDone
    /\ Len(list_sink) = 1
    /\ list_sink[1].kind = "OK"
    /\ Len(list_sink[1].status_items) >= 1
    /\ Len(list_sink[1].status_items) < Len(list_sink[1].list_items)
    /\ \E k \in 2..Len(list_sink[1].list_items) :
          /\ list_sink[1].list_items[k - 1].mailbox_name \in status_fails
          /\ list_sink[1].list_items[k].mailbox_name \notin status_fails

\* C18: a separator query is answered by handle_list with one list item
\* (empty name, NoSelect, no tags) and a completed status; no task is
\* spawned, the mailboxes are neither refreshed nor read, and no STATUS is
\* queried.
C18_SeparatorQuery ==
    (ListDone /\ list_request.parse_ok
        /\ is_separator_query(list_request.arguments)) =>
        /\ list_sink = <<[kind |-> "OK", text |-> "completed",
                          command |-> list_request.command,
                          is_rev2 |-> list_request.is_rev2,
                          is_lsub |-> list_request.command = "Lsub",
                          list_items |-> <<[mailbox_name |-> <<>>,
                                            attributes |-> <<"NoSelect">>,
                                            tags |-> <<>>]>>,
                          status_items |-> <<>>]>>
        /\ list_calls = NoCalls
        /\ list_items = <<>>
        /\ status_items = <<>>

\* a separator query that asks for STATUS
C18_Witness ==
    /\ ListDone
    /\ list_request.parse_ok
    /\ is_separator_query(list_request.arguments)
    /\ "Status" \in list_request.arguments.return_options
    /\ Len(list_sink) = 1

(***************************************************************************)
(* Saved-search slot: the claims                                           *)
(***************************************************************************)
SavingTasks == {t \in 1..Len(tasks) : Saving(t)}

\* every spawned task has written its response and the session is between
\* two commands
Quiescent ==
    /\ session.pc = "idle"
    /\ \A t \in 1..Len(tasks) : tasks[t].pc = "done"

LastSaving(t) == t \in SavingTasks /\ \A b \in SavingTasks : b <= t

\* The value of the slot before the command of task t was issued: what the
\* last SAVE search before t left there (its results when it succeeded, else
\* the value before it), or the initial value, which the first SAVE search
\* reads without waiting.
RECURSIVE SettledBefore(_)
SettledBefore(t) ==
    LET earlier == {b \in SavingTasks : b < t}
    IN IF earlier = {}
       THEN RestoredSlot(tasks[t].prev_saved_search)
       ELSE LET b == CHOOSE x \in earlier : \A y \in earlier : y <= x
            IN IF tasks[b].ok
               THEN SavedResults(tasks[b].saved_results)
               ELSE SettledBefore(b)

\* C1: once the task of a failed SAVE search has finished, the slot holds
\* the value it held before the command was issued.
C1_FailedSaveKeepsSlot ==
    \A t \in 1..Len(tasks) :
        (Quiescent /\ LastSaving(t) /\ ~tasks[t].ok)
            => saved_search = SettledBefore(t)

\* the documents of the mailbox that the uids of a saved list map to in
\* the current uid_to_id
DollarDocuments(items) ==
    {d \in StoreTagged :
        \E k \in 1..Len(items) :
            /\ items[k].uid \in DOMAIN mailbox.state.uid_to_id
            /\ mailbox.state.uid_to_id[items[k].uid] = d}

\* the documents a SAVE search selected: those of the ImapIds it saved
SelectedDocuments(t) ==
    {d \in DOMAIN mailbox.state.next_id_to_imap :
        \E k \in 1..Len(tasks[t].saved_results) :
            tasks[t].saved_results[k] = mailbox.state.next_id_to_imap[d]}

IsDollarSearch(t) ==
    /\ tasks[t].arguments.filter = <<FilterSavedSearch>>
    /\ tasks[t].arguments.result_options = {"Save"}

\* C2: after a SAVE search succeeds the slot is Results with the list of
\* that search, and a following search on `$` selects exactly the documents
\* the uids of that list map to in the current uid_to_id.
C2_SavedThenDollar ==
    \A t \in 1..Len(tasks) :
        /\ (Quiescent /\ LastSaving(t) /\ tasks[t].ok)
              => saved_search = SavedResults(tasks[t].saved_results)
        /\ \A b \in SavingTasks :
              (/\ t \in SavingTasks /\ b < t
               /\ \A x \in SavingTasks : ~(b < x /\ x < t)
               /\ tasks[b].ok /\ tasks[t].ok /\ IsDollarSearch(t))
                 => SelectedDocuments(t) = DollarDocuments(tasks[b].saved_results)

\* the value the slot has before the first SAVE search, as get_saved_search
\* returns it
InitialSaved ==
    IF SavingTasks = {}
    THEN SlotValue
    ELSE LET first == CHOOSE x \in SavingTasks : \A y \in SavingTasks : x <= y
             p == tasks[first].prev_saved_search
         IN [some |-> p.some, items |-> p.items]

\* the lists that SAVE searches before task t have stored in the slot
StoredBefore(t) ==
    {SomeOpt(tasks[b].saved_results) : b \in {x \in SavingTasks : x < t /\ tasks[x].ok}}

Returned(t) ==
    [some |-> tasks[t].prev_saved_search.some,
     items |-> tasks[t].prev_saved_search.items]

\* C3: every get_saved_search returns a complete list that was saved: the
\* previously saved one (or none) or the one of a new search, never another.
C3_ReadsAreSavedLists ==
    \A t \in SavingTasks :
        Returned(t) \in {InitialSaved} \cup StoredBefore(t)

DroppedUnpublished(b) ==
    /\ b \in SavingTasks
    /\ channels[b].closed
    /\ ~channels[b].changed

\* C4: a get_saved_search that waited on a producer which was dropped
\* without publishing returns the value saved before that producer started.
C4_DroppedProducerGivesPrevious ==
    \A t \in SavingTasks :
        (tasks[t].waited_rx # 0 /\ DroppedUnpublished(tasks[t].waited_rx))
            => tasks[t].prev_saved_search
                 = tasks[tasks[t].waited_rx].prev_saved_search

Producers == {t \in SavingTasks : tasks[t].pc \in {"search", "restore"}}

\* C6: at most one SAVE search at a time is a producer for the slot: a new
\* InFlight marker is installed only after every earlier SAVE search has
\* made its last write.
C6_OneProducer == Cardinality(Producers) <= 1

\* C7: a get_saved_search that finds the slot InFlight returns once the
\* producing task finishes, and when that search succeeded it returns the
\* list the producer stored in the slot.
C7_WaiterGetsResults ==
    /\ (session.pc = "changed") ~> (session.pc = "install")
    /\ [](\A t \in SavingTasks :
            (tasks[t].waited_rx # 0 /\ tasks[tasks[t].waited_rx].ok)
                => tasks[t].prev_saved_search
                     = Prev(SomeOpt(tasks[tasks[t].waited_rx].saved_results)))

C7_Witness ==
    \E t \in SavingTasks :
        /\ tasks[t].waited_rx # 0
        /\ tasks[tasks[t].waited_rx].ok
        /\ tasks[tasks[t].waited_rx].saved_results # <<>>

\* the tasks whose search() has returned
Searched(t) == tasks[t].pc \in {"send", "restore", "write", "done"}

\* C19: a search on `$` issued while the mailbox has no saved search (the
\* slot held None before the command) fails as a whole: its task ends with
\* an error, which is "No saved search found." unless a store access failed
\* first, the store's filter has not run and the response carries no ids.
C19_DollarWithoutSavedSearchFails ==
    \A t \in 1..Len(tasks) :
        (Searched(t) /\ IsDollarSearch(t) /\ SettledBefore(t) = SavedNone)
            => /\ ~tasks[t].ok
               /\ tasks[t].err \in {"No saved search found.", "Database failure."}
               /\ tasks[t].response = <<>>

(***************************************************************************)
(* query(): the claims                                                     *)
(***************************************************************************)
\* the filter list of the call of the store's filter() that query() made
Filtered == query_pc = "done" /\ query_out.filter_calls # <<>>
PassedFilters == query_out.filter_calls[1]

\* the universe of the selected mailbox as the specification defines it
Universe ==
    IF mailbox.id.has_mailbox_id THEN StoreTagged ELSE StoreDocumentIds

UniverseAtoms ==
    Cardinality({k \in 1..Len(PassedFilters) : PassedFilters[k] = InSet(Universe)})
AllKeys ==
    Cardinality({k \in 1..Len(query_call.imap_filter) :
                    query_call.imap_filter[k] = FilterAll})

RECURSIVE OpenAfter(_, _, _)
OpenAfter(kinds, k, open) ==
    IF k > Len(kinds) \/ open < 0
    THEN open
    ELSE OpenAfter(kinds, k + 1,
                   IF kinds[k] \in {"And", "Or", "Not"} THEN open + 1
                   ELSE IF kinds[k] = "End" THEN open - 1
                   ELSE open)

Balanced(kinds) == OpenAfter(kinds, 1, 0) = 0

FilterKinds == [k \in 1..Len(query_call.imap_filter) |->
                    query_call.imap_filter[k].kind]
AtomKinds == [k \in 1..Len(PassedFilters) |-> PassedFilters[k].atom]

\* C21: when the markers of the parsed filter list are balanced, so are
\* those of the expression passed to the store.
C21_CompiledIsBalanced ==
    (Filtered /\ Balanced(FilterKinds)) => Balanced(AtomKinds)

\* NOT (OR NEW (HEADER Subject "x Y")): markers of the list, of NEW and of a
\* header with two tokens
C21_Witness ==
    /\ Filtered
    /\ query_call.imap_filter =
          <<FilterMarker("Not"), FilterMarker("Or"), FilterNew,
            FilterHeaderValue("Subject", <<"x", " ", "Y">>), FilterMarker("End"),
            FilterMarker("End")>>
    /\ Len(PassedFilters) >= 14
    /\ query_out.ok

(***************************************************************************)
(* The id mapper: the claims                                               *)
(***************************************************************************)
\* uid_to_id and id_to_imap of the selected mailbox are mutual inverses
MutualInverses ==
    LET st == mailbox.state
    IN /\ \A d \in DOMAIN st.id_to_imap :
            /\ st.id_to_imap[d].uid \in DOMAIN st.uid_to_id
            /\ st.uid_to_id[st.id_to_imap[d].uid] = d
       /\ \A u \in DOMAIN st.uid_to_id :
            /\ st.uid_to_id[u] \in DOMAIN st.id_to_imap
            /\ st.id_to_imap[st.uid_to_id[u]].uid = u

\* C22: for a document of id_to_imap, map_result_id gives its uid when
\* is_uid and its seqnum otherwise, and the uid of the ImapId it returns
\* resolves through uid_to_id to that document and no other.
C22_MapRoundTrip ==
    (/\ map_pc = "done"
     /\ MutualInverses
     /\ map_call.document_id \in DOMAIN mailbox.state.id_to_imap) =>
        LET imap_id == mailbox.state.id_to_imap[map_call.document_id]
        IN /\ map_out.some
           /\ map_out.id = IF map_call.is_uid THEN imap_id.uid ELSE imap_id.seqnum
           /\ map_out.resolved = {map_call.document_id}

\* a uid search for the document with the highest uid and the lowest id of
\* a mailbox of three documents
C22_Witness ==
    /\ map_pc = "done"
    /\ map_call = [document_id |-> 1, is_uid |-> TRUE]
    /\ Cardinality(DOMAIN mailbox.state.id_to_imap) = 3
    /\ map_out.id = 13
    /\ map_out.imap_id.seqnum = 3

(***************************************************************************)
(* search(): the claims                                                    *)
(***************************************************************************)
\* search() returned a response; the documents the store's filter selected
SearchDone == search_pc = "done" /\ search_out.ok
Response == search_out.response[1]
Options == search_call.arguments.result_options
ResultDocs == query_out.results

\* the uid (for a UID command) or seqnum a document has in the mailbox
\* state: that of id_to_imap, or for a UID command the uid of next_state
NumberOf(d) ==
    LET st == mailbox.state
    IN IF d \in DOMAIN st.id_to_imap
       THEN IF search_call.arguments.is_uid THEN {st.id_to_imap[d].uid}
            ELSE {st.id_to_imap[d].seqnum}
       ELSE IF /\ search_call.arguments.is_uid
               /\ st.has_next
               /\ d \in DOMAIN st.next_id_to_imap
       THEN {st.next_id_to_imap[d].uid}
       ELSE {}

MappedDocs == {d \in ResultDocs : NumberOf(d) # {}}
MappedNumbers == UNION {NumberOf(d) : d \in ResultDocs}
Least(S) == CHOOSE x \in S : \A y \in S : x <= y
Greatest(S) == CHOOSE x \in S : \A y \in S : x >= y

\* C23: MIN is the smallest and MAX the largest uid or seqnum of the result
\* documents that map through the mailbox state, each present exactly when
\* it is requested and a document maps; COUNT, when requested, is the
\* number of those documents.
C23_MinMaxCount ==
    SearchDone =>
        /\ Response.min = IF "Min" \in Options /\ MappedDocs # {}
                          THEN SomeNum(Least(MappedNumbers)) ELSE NoNum
        /\ Response.max = IF "Max" \in Options /\ MappedDocs # {}
                          THEN SomeNum(Greatest(MappedNumbers)) ELSE NoNum
        /\ Response.count = IF "Count" \in Options
                            THEN SomeNum(Cardinality(MappedDocs)) ELSE NoNum

\* UID SEARCH RETURN (MIN MAX COUNT) ALL on the mailbox of uids 11, 12, 13
C23_Witness ==
    /\ SearchDone
    /\ Options = {"Min", "Max", "Count"}
    /\ search_call.arguments.is_uid
    /\ ~search_call.arguments.sort
    /\ Response.min = SomeNum(11)
    /\ Response.max = SomeNum(13)
    /\ Response.count = SomeNum(3)

IdSet == {Response.ids[k] : k \in 1..Len(Response.ids)}

\* C24: with no result option or with ALL, whatever accompanies it, the id
\* list holds the uid or seqnum of every result document that maps; with
\* result options that lack ALL the id list is empty.
C24_AllListsEveryMappedId ==
    SearchDone =>
        IF Options = {} \/ "All" \in Options
        THEN MappedNumbers \subseteq IdSet
        ELSE Response.ids = <<>>

\* the low 32 bits of the change-log entries since m that are documents of
\* the universe of the selected mailbox
ChangedSince(m) ==
    {StoreChanges(m)[k].lo : k \in 1..Len(StoreChanges(m))} \cap Universe

HasModSeq ==
    \E k \in 1..Len(search_call.arguments.filter) :
        search_call.arguments.filter[k].kind = "ModSeq"

\* C25: the atom of a MODSEQ m filter, the last of the list here, is InSet
\* of the changed documents of the universe, and a response carries the
\* highest modseq of the synchronization exactly when the filter list
\* contains a MODSEQ filter.
C25_ModSeqSetAndHighestModseq ==
    LET filter == search_call.arguments.filter
        last == filter[Len(filter)]
    IN /\ (search_pc = "done" /\ Filtered /\ last.kind = "ModSeq")
             => PassedFilters[Len(PassedFilters)] = InSet(ChangedSince(last.modseq))
       /\ SearchDone
             => Response.highest_modseq =
                    IF HasModSeq THEN SomeNum(HighestModseq) ELSE NoNum

\* SEARCH ALL MODSEQ 40 on the real mailbox: of the changed documents 2 and
\* 4 only 2 is in the universe
C25_Witness ==
    /\ SearchDone
    /\ mailbox.id.has_mailbox_id
    /\ search_call.arguments.filter = <<FilterAll, FilterModSeq(40)>>
    /\ PassedFilters[3] = InSet({2})
    /\ Response.highest_modseq = SomeNum(42)

(***************************************************************************)
(* The session's sink: the claims                                          *)
(***************************************************************************)
\* the writes of search task t; sink and list_sink hold the writes of the
\* SEARCH and of the LIST tasks to the sink of the session
WritesOf(t) == {k \in 1..Len(sink) : sink[k].tag = t}

\* C26: a spawned task has written nothing until it finishes and exactly
\* one response when it has; the response of a successful command carries
\* its data with the completion, that of a failed one carries no data.
C26_OneWritePerTask ==
    /\ \A t \in 1..Len(tasks) :
          /\ Cardinality(WritesOf(t)) = IF tasks[t].pc = "done" THEN 1 ELSE 0
          /\ \A k \in WritesOf(t) :
                /\ sink[k].ok = tasks[t].ok
                /\ IF sink[k].ok THEN Len(sink[k].response) = 1
                   ELSE sink[k].response = <<>>
    /\ list_calls.spawned =>
          /\ Len(list_sink) = IF list_pc = "done" THEN 1 ELSE 0
          /\ \A k \in 1..Len(list_sink) :
                list_sink[k].kind # "OK" =>
                    /\ list_sink[k].list_items = <<>>
                    /\ list_sink[k].status_items = <<>>

\* a failed and a successful search and a LIST with STATUS items, all
\* finished, the failed search after the successful one
C26_Witness ==
    /\ Quiescent
    /\ Len(tasks) = 2
    /\ ~tasks[1].ok /\ tasks[2].ok
    /\ sink[1].tag = 2
    /\ list_calls.spawned /\ list_pc = "done"
    /\ list_sink[1].kind = "OK"
    /\ list_sink[1].status_items # <<>>

(***************************************************************************)
(* The rollback of a failed SAVE search against the next SAVE search       *)
(***************************************************************************)
\* the failed SAVE search whose receiver the command of task b waited on
FailedProducerOf(b) == tasks[b].waited_rx

OvertakenByNext(b) ==
    /\ b \in SavingTasks
    /\ FailedProducerOf(b) # 0
    /\ DroppedUnpublished(FailedProducerOf(b))
    /\ ~tasks[FailedProducerOf(b)].ok

\* C27: when a SAVE search fails while the session handles the next SAVE
\* search, the later command records the value saved before the failed one,
\* its InFlight marker stays in the slot while it runs, and the slot ends
\* with its outcome: its results, or the value before the failed search.
C27_RollbackKeepsLaterCommand ==
    \A b \in 1..Len(tasks) :
        OvertakenByNext(b) =>
            /\ tasks[b].prev_saved_search
                   = tasks[FailedProducerOf(b)].prev_saved_search
            /\ tasks[b].pc = "search"
                   => saved_search = SavedInFlight(tasks[b].results_tx)
            /\ (Quiescent /\ LastSaving(b)) =>
                   saved_search =
                       IF tasks[b].ok
                       THEN SavedResults(tasks[b].saved_results)
                       ELSE RestoredSlot(tasks[FailedProducerOf(b)].prev_saved_search)

\* the rollback of the failed search has replaced the marker of the running
\* later command
C27_MarkerOverwritten ==
    \E b \in 1..Len(tasks) :
        /\ OvertakenByNext(b)
        /\ tasks[b].pc = "search"
        /\ tasks[FailedProducerOf(b)].pc \in {"write", "done"}
        /\ saved_search # SavedInFlight(tasks[b].results_tx)

(***************************************************************************)
(* map_search_results: what is collected                                   *)
(***************************************************************************)
SavedList == search_out.saved_results

\* the uids or seqnums of the ImapIds of the saved-results list
SavedNumbers ==
    {IF search_call.arguments.is_uid THEN SavedList[k].uid
     ELSE SavedList[k].seqnum : k \in 1..Len(SavedList)}

\* the min and max candidates that were asked for
Candidates ==
    IF MappedNumbers = {} THEN {}
    ELSE (IF "Min" \in Options THEN {Least(MappedNumbers)} ELSE {})
         \cup (IF "Max" \in Options THEN {Greatest(MappedNumbers)} ELSE {})

CandidatesOnly ==
    /\ "Min" \in Options \/ "Max" \in Options
    /\ ~search_call.arguments.sort

\* C28: only for MIN or MAX without sort criteria are just the min/max
\* candidates collected; otherwise, a sort with MIN or MAX included, the
\* result list and, when saving, the saved list hold every mapped id.
C28_FullListUnlessMinMaxOnly ==
    SearchDone =>
        /\ ("All" \in Options \/ Options = {}) =>
               IdSet = IF CandidatesOnly THEN Candidates ELSE MappedNumbers
        /\ "Save" \in Options =>
               SavedNumbers = IF CandidatesOnly THEN Candidates ELSE MappedNumbers

(***************************************************************************)
(* Result documents that are not in id_to_imap                             *)
(***************************************************************************)
Present == {d \in ResultDocs : d \in DOMAIN mailbox.state.id_to_imap}
Absent == ResultDocs \ Present

\* the absent documents a UID command finds in next_state
Recovered ==
    IF search_call.arguments.is_uid /\ mailbox.state.has_next
    THEN {d \in Absent : d \in DOMAIN mailbox.state.next_id_to_imap}
    ELSE {}

\* the numbers the response is computed from: those of the present
\* documents and the next_state uids of the recovered ones
KeptNumbers ==
    {IF search_call.arguments.is_uid THEN mailbox.state.id_to_imap[d].uid
     ELSE mailbox.state.id_to_imap[d].seqnum : d \in Present}
    \cup {mailbox.state.next_id_to_imap[d].uid : d \in Recovered}

\* C29: a result document absent from id_to_imap counts, with the uid it
\* has in next_state, only for a UID command that finds it there; every
\* other absent document is left out of the id list, of MIN and MAX and of
\* the count.
C29_AbsentIdsUseNextStateForUid ==
    SearchDone =>
        /\ "Count" \in Options =>
               Response.count = SomeNum(Cardinality(Present) + Cardinality(Recovered))
        /\ Options \in {{}, {"All"}, {"Count"}, {"All", "Count"}} =>
               IdSet = IF Options = {"Count"} THEN {} ELSE KeptNumbers
        /\ ("Min" \in Options /\ KeptNumbers # {}) =>
               Response.min = SomeNum(Least(KeptNumbers))
        /\ ("Max" \in Options /\ KeptNumbers # {}) =>
               Response.max = SomeNum(Greatest(KeptNumbers))
        /\ (KeptNumbers = {}) => (~Response.min.some /\ ~Response.max.some)

\* UID SEARCH RETURN (ALL COUNT) ALL finds document 3, which only
\* next_state knows, under uid 13
C29_Witness ==
    /\ SearchDone
    /\ search_call.arguments.is_uid
    /\ Recovered = {3}
    /\ Present = {1, 2}
    /\ Options = {"All", "Count"}
    /\ Response.count = SomeNum(3)
    /\ IdSet = {11, 12, 13}

\* SEARCH RETURN (COUNT) ALL drops document 3, and the all-mail mailbox,
\* which has no next_state, drops it from a UID SEARCH
C29_WitnessDropped ==
    /\ SearchDone
    /\ Absent = {3}
    /\ Recovered = {}
    /\ Options = {"Count"}
    /\ Response.count = SomeNum(Cardinality(ResultDocs) - 1)

(***************************************************************************)
(* The order of the id list                                                *)
(***************************************************************************)
SortedDocs == StoreSort(ResultDocs)

\* the place a uid or seqnum has in the order the store's sort returned
PlaceOf(n) ==
    CHOOSE k \in 1..Len(SortedDocs) : n \in NumberOf(SortedDocs[k])

IsAscending(ids) ==
    \A i, j \in 1..Len(ids) : i < j => ids[i] <= ids[j]

FollowsStoreSort(ids) ==
    /\ \A i \in 1..Len(ids) : ids[i] \in MappedNumbers
    /\ \A i, j \in 1..Len(ids) : i < j => PlaceOf(ids[i]) < PlaceOf(ids[j])

\* C30: without sort criteria the id list of the response is in ascending
\* order of uid or seqnum; with sort criteria it is in the order in which
\* the store's sort returned the documents.
C30_ListOrder ==
    SearchDone =>
        IF search_call.arguments.sort
        THEN FollowsStoreSort(Response.ids)
        ELSE IsAscending(Response.ids)

(***************************************************************************)
(* LIST: special use, order of the items, prefixes                         *)
(***************************************************************************)
SpecialUseOf(m) ==
    mailboxes[m.a].mailbox_state[mailboxes[m.a].mailbox_names[m.k].id].special_use

HasAttribute(item, attribute) ==
    \E t \in 1..Len(item.attributes) : item.attributes[t] = attribute

\* the LIST ended with its tagged OK
ListedOk == ListDone /\ Len(list_sink) = 1 /\ list_sink[1].kind = "OK"

\* the mailbox matches a pattern of the request and passes its
\* subscription filter
Selected(m) ==
    /\ matches_pattern(ListPatterns(list_request.arguments), NameOf(m))
    /\ \/ ~RequestOptions.filter_subscribed
       \/ IsSubscribed(m)
       \/ RequestOptions.recursive_match /\ HasSubscribedDescendant(m)

\* C31: with the SpecialUse selection option every emitted mailbox of an
\* account has a special use and carries it as an attribute, a selected
\* mailbox without one being skipped; without the option every selected
\* mailbox is emitted, with or without a special use.
C31_SpecialUseFilter ==
    (EngineRequest /\ ListedOk) =>
        \A m \in NamespaceMailboxes :
            IF RequestOptions.filter_special_use
            THEN /\ \A item \in EmittedItems :
                       item.mailbox_name = NameOf(m) =>
                           /\ SpecialUseOf(m) # ""
                           /\ HasAttribute(item, SpecialUseOf(m))
                 /\ (Selected(m) /\ SpecialUseOf(m) # "") =>
                       \E item \in EmittedItems : item.mailbox_name = NameOf(m)
            ELSE Selected(m) =>
                    \E item \in EmittedItems : item.mailbox_name = NameOf(m)

\* LIST (SUBSCRIBED SPECIAL-USE): the subscribed mailbox a, which has no
\* special use, is skipped and the Sent folder c is listed
C31_Witness ==
    /\ EngineRequest /\ ListedOk
    /\ RequestOptions.filter_special_use
    /\ RequestOptions.filter_subscribed
    /\ \E m \in NamespaceMailboxes :
          /\ Selected(m) /\ IsSubscribed(m) /\ SpecialUseOf(m) = ""
          /\ \A item \in EmittedItems : item.mailbox_name # NameOf(m)
    /\ \E item \in EmittedItems : HasAttribute(item, "Sent")

\* the list items of the response, in the order written
Listed == list_sink[1].list_items

\* the account an item belongs to: that of the prefix or of the mailbox it
\* names (0 for All Mail and the shared folder)
AccountOfItem(item) ==
    IF \E a \in 1..Len(mailboxes) :
          \/ mailboxes[a].has_prefix /\ mailboxes[a].prefix = item.mailbox_name
          \/ \E m \in NamespaceMailboxes : m.a = a /\ NameOf(m) = item.mailbox_name
    THEN CHOOSE a \in 1..Len(mailboxes) :
          \/ mailboxes[a].has_prefix /\ mailboxes[a].prefix = item.mailbox_name
          \/ \E m \in NamespaceMailboxes : m.a = a /\ NameOf(m) = item.mailbox_name
    ELSE 0

IsAllMailItem(item) == item.mailbox_name = imap.name_all
IsSharedFolderItem(item) == item.mailbox_name = imap.name_shared

PrefixedAccounts == {a \in 1..Len(mailboxes) : mailboxes[a].has_prefix}

\* C32: the All Mail item is the first item of the response; the shared
\* folder is listed at most once and before every item of an account with
\* a prefix; the items of the accounts follow in namespace order.
C32_ItemOrder ==
    (EngineRequest /\ ListedOk) =>
        /\ \A k \in 1..Len(Listed) : IsAllMailItem(Listed[k]) => k = 1
        /\ Cardinality({k \in 1..Len(Listed) : IsSharedFolderItem(Listed[k])}) <= 1
        /\ \A k, j \in 1..Len(Listed) :
              (IsSharedFolderItem(Listed[k])
                  /\ AccountOfItem(Listed[j]) \in PrefixedAccounts) => k < j
        /\ \A k, j \in 1..Len(Listed) :
              (k < j /\ AccountOfItem(Listed[k]) # 0 /\ AccountOfItem(Listed[j]) # 0)
                  => AccountOfItem(Listed[k]) <= AccountOfItem(Listed[j])
        /\ \A k \in 1..Len(Listed) :
              \/ AccountOfItem(Listed[k]) # 0
              \/ IsAllMailItem(Listed[k])
              \/ IsSharedFolderItem(Listed[k])

\* LIST "" "*" on a namespace with two prefixed accounts: All Mail first,
\* the shared folder once, then both accounts' prefixes and mailboxes
C32_Witness ==
    /\ EngineRequest /\ ListedOk
    /\ Cardinality(PrefixedAccounts) = 2
    /\ Len(Listed) >= 6
    /\ IsAllMailItem(Listed[1])
    /\ \E k \in 1..Len(Listed) : IsSharedFolderItem(Listed[k])
    /\ \A a \in 1..Len(mailboxes) :
          \E k \in 1..Len(Listed) : AccountOfItem(Listed[k]) = a

\* the places of the response that name the prefix of account a
PrefixPlaces(a) ==
    {k \in 1..Len(Listed) : Listed[k].mailbox_name = mailboxes[a].prefix}

PrefixMatches(a) ==
    matches_pattern(ListPatterns(list_request.arguments), mailboxes[a].prefix)

PrefixAttributes ==
    IF "Children" \in list_request.arguments.return_options
    THEN <<"HasChildren", "NoSelect">> ELSE <<"NoSelect">>

\* C33 as stated: every account with a prefix that matches a pattern gets
\* one item named by the prefix, with NoSelect preceded by HasChildren
\* exactly when Children is a return option, with and without Subscribed.
C33_PrefixAlwaysListed ==
    (EngineRequest /\ ListedOk) =>
        \A a \in PrefixedAccounts :
            PrefixMatches(a) =>
                /\ Cardinality(PrefixPlaces(a)) = 1
                /\ \A k \in PrefixPlaces(a) :
                      Listed[k].attributes = PrefixAttributes

\* What list() does: without the Subscribed selection option every account
\* with a prefix that matches a pattern gets one such item; with the
\* Subscribed selection option, or when the prefix matches no pattern, no
\* item is named by the prefix.
PrefixListedUnlessSubscribed ==
    (EngineRequest /\ ListedOk) =>
        \A a \in PrefixedAccounts :
            IF PrefixMatches(a) /\ ~RequestOptions.filter_subscribed
            THEN /\ Cardinality(PrefixPlaces(a)) = 1
                 /\ \A k \in PrefixPlaces(a) :
                       /\ Listed[k].attributes = PrefixAttributes
                       /\ Listed[k].tags = <<>>
            ELSE PrefixPlaces(a) = {}

\* LIST "" "*" RETURN (CHILDREN) with two prefixed accounts: both prefixes
\* are listed with HasChildren and NoSelect
PrefixesListed ==
    /\ EngineRequest /\ ListedOk
    /\ Cardinality(PrefixedAccounts) = 2
    /\ ~RequestOptions.filter_subscribed
    /\ "Children" \in list_request.arguments.return_options
    /\ \A a \in PrefixedAccounts :
          /\ PrefixMatches(a)
          /\ \E k \in PrefixPlaces(a) :
                Listed[k].attributes = <<"HasChildren", "NoSelect">>

\* LIST (SUBSCRIBED) "" "*": the matching prefix s/x is not listed while
\* its subscribed mailbox s/x/a is
PrefixNotListed ==
    /\ EngineRequest /\ ListedOk
    /\ RequestOptions.filter_subscribed
    /\ \E a \in PrefixedAccounts :
          /\ PrefixMatches(a)
          /\ PrefixPlaces(a) = {}
          /\ \E k \in 1..Len(Listed) : AccountOfItem(Listed[k]) = a

(***************************************************************************)
(* The HEADER key: the claims                                              *)
(***************************************************************************)
HeaderKey == query_call.imap_filter[1]
HeaderValue == HeaderKey.value

\* the places <<i, j>> of the whitespace-separated parts of the value
PartsOf(value) ==
    {p \in (1..Len(value)) \X (1..Len(value)) :
        /\ p[1] <= p[2]
        /\ \A k \in p[1]..p[2] : value[k] # " "
        /\ p[1] = 1 \/ value[p[1] - 1] = " "
        /\ p[2] = Len(value) \/ value[p[2] + 1] = " "}

ShortParts(value) == {p \in PartsOf(value) : p[2] - p[1] + 1 < MAX_TOKEN_LENGTH}

\* the atom of part p: the header with the part, lower-cased unless the
\* header is an id header
PartAtom(header, value, p) ==
    [atom |-> "HasRawText", property |-> "Headers", header |-> header,
     word |-> [k \in 1..(p[2] - p[1] + 1) |->
                  IF header # "Message-Id" /\ value[p[1] + k - 1] = "Y"
                  THEN "y" ELSE value[p[1] + k - 1]]]

\* the atoms of a set of parts, in the order of the value
RECURSIVE PartAtoms(_, _, _)
PartAtoms(header, value, parts) ==
    IF parts = {}
    THEN <<>>
    ELSE LET p == CHOOSE x \in parts : \A y \in parts : x[1] <= y[1]
         IN <<PartAtom(header, value, p)>>
            \o PartAtoms(header, value, parts \ {p})

\* the atoms compiled for the key: what follows the leading atom
KeyAtoms ==
    IF mailbox.id.has_mailbox_id
    THEN SubSeq(PassedFilters, 2, Len(PassedFilters))
    ELSE PassedFilters

\* C34: the tokens of a HEADER key on an allowed header are the
\* whitespace-separated parts of the value shorter than MAX_TOKEN_LENGTH,
\* with the header, lower-cased unless it is an id header; no token
\* compiles to HasRawText on the header alone, one token to one HasRawText,
\* more to AND, their HasRawText atoms, END. A header that is not allowed
\* fails the search and nothing is passed to the store.
C34_HeaderTokens ==
    (query_pc = "done" /\ HeaderKey.kind = "HeaderValue") =>
        IF HeaderKey.header \notin {"Subject", "Message-Id"}
        THEN /\ ~query_out.ok
             /\ query_out.err = "Querying non-RFC header is not allowed."
             /\ query_out.filter_calls = <<>>
        ELSE LET tokens == PartAtoms(HeaderKey.header, HeaderValue,
                                     ShortParts(HeaderValue))
             IN /\ query_out.ok
                /\ KeyAtoms =
                     IF Len(tokens) = 0
                     THEN <<[atom |-> "HasRawText", set |-> {},
                             property |-> "Headers", token |-> HeaderKey.header]>>
                     ELSE IF Len(tokens) = 1 THEN tokens
                     ELSE <<[atom |-> "And"]>> \o tokens \o <<[atom |-> "End"]>>

\* HEADER Subject "Y xxx": the part xxx is left out and the one token is y
C34_Witness ==
    /\ query_pc = "done"
    /\ HeaderKey = FilterHeaderValue("Subject", <<"Y", " ", "x", "x", "x">>)
    /\ query_out.ok
    /\ KeyAtoms = <<HasRawToken("Headers", "Subject", <<"y">>)>>

\* HEADER Message-Id "Y x": two tokens, in their case, between AND and END
HeaderTwoTokens ==
    /\ query_pc = "done"
    /\ HeaderKey = FilterHeaderValue("Message-Id", <<"Y", " ", "x">>)
    /\ KeyAtoms = <<Marker("And"), HasRawToken("Headers", "Message-Id", <<"Y">>),
                    HasRawToken("Headers", "Message-Id", <<"x">>), Marker("End")>>

(***************************************************************************)
(* A SAVE search on `$`                                                    *)
(***************************************************************************)
IsDollarSave(arguments) ==
    "Save" \in arguments.result_options /\ HasDollar(arguments.filter)

DollarSaveTask(t) ==
    t \in 1..Len(tasks) /\ Saving(t) /\ IsDollarSave(tasks[t].arguments)

DollarSaveDone(t) == t \in 1..Len(tasks) /\ tasks[t].pc = "done"

\* handle_search is reading the slot for a SAVE search on `$`
DollarSavePending ==
    /\ session.pc \in {"changed", "install"}
    /\ IsDollarSave(session.arguments[1])

\* C35: a SAVE search on `$` selects the documents of the saved result that
\* get_saved_search returned before the command's own InFlight marker was
\* installed (it fails when there was none); the receiver the command
\* waited on is never that of its own channel; the command is spawned and
\* its task finishes.
C35_DollarSaveCompletes ==
    /\ [](\A t \in 1..Len(tasks) :
            DollarSaveTask(t) =>
                /\ tasks[t].waited_rx # tasks[t].results_tx
                /\ Searched(t) =>
                      IF tasks[t].prev_saved_search.some
                      THEN tasks[t].ok =>
                              SelectedDocuments(t)
                                = DollarDocuments(tasks[t].prev_saved_search.items)
                      ELSE /\ ~tasks[t].ok
                           /\ tasks[t].err \in {"No saved search found.",
                                                "Database failure."})
    /\ \A t \in 1..MaxCmds : DollarSaveTask(t) ~> DollarSaveDone(t)
    /\ DollarSavePending ~> (session.pc = "idle")

\* a SAVE search on `$` issued while a SAVE search was in flight has
\* finished with the documents of the list that search saved
C35_Witness ==
    \E t \in 1..Len(tasks) :
        /\ DollarSaveTask(t)
        /\ tasks[t].waited_rx # 0
        /\ tasks[t].pc = "done"
        /\ tasks[t].ok
        /\ tasks[t].prev_saved_search.some
        /\ SelectedDocuments(t) # {}

(***************************************************************************)
(* Duplicates in the id list and in the saved list                         *)
(***************************************************************************)
NoDuplicates(list) ==
    \A i, j \in 1..Len(list) : list[i] = list[j] => i = j

\* C36: whatever the result options and however many documents match, the
\* id list of the response and the saved-results list hold no message
\* twice.
C36_EachMessageOnce ==
    SearchDone => NoDuplicates(Response.ids) /\ NoDuplicates(SavedList)

\* Outside MIN together with MAX no list holds a message twice.
OnceUnlessMinAndMax ==
    (SearchDone /\ ~{"Min", "Max"} \subseteq Options) =>
        NoDuplicates(Response.ids) /\ NoDuplicates(SavedList)

\* Both lists hold the only matching message twice.
OnlyMatchTwice ==
    /\ SearchDone
    /\ Cardinality(MappedNumbers) = 1
    /\ Len(Response.ids) = 2
    /\ Len(SavedList) = 2

(***************************************************************************)
(* WebSocket: what is queued for push, and the idle client                 *)
(***************************************************************************)
\* the entries a step adds to the pending state-change message
NewlyQueued == ws'.changed \ ws.changed

\* C37: an entry is placed in the pending state-change message only when
\* its type is among the enabled types, and none is placed while no type
\* is enabled (before PushEnable, after PushDisable).
C37_QueuedTypesEnabled ==
    [][\A p \in NewlyQueued : p.type \in ws.change_types]_vars

\* While no type is enabled nothing is queued.
NothingQueuedWhileDisabled ==
    [][ws.change_types = {} => NewlyQueued = {}]_vars

\* An entry of a type that is not enabled is pending.
UnrequestedTypePending ==
    /\ ws.pc = "loop"
    /\ \E p \in ws.changed : p.type \notin ws.change_types
    /\ ws.change_types # {}

\* the client sent no frame for longer than web_socket_timeout and is
\* still connected
IdleTooLong == ws.pc = "loop" /\ ws.silent > web_socket_timeout

\* C38: a client that is silent for longer than web_socket_timeout is
\* disconnected (unless a frame of the client arrives), state changes
\* arriving or not.
C38_IdleClientDisconnected ==
    IdleTooLong ~> (ws.pc = "closed" \/ ws.silent = 0)

(***************************************************************************)
(* get_bitmaps_intersection: missing bitmaps and the order of the keys     *)
(***************************************************************************)
IntersectionDone == bitmap_pc = "done" /\ bitmap_out.ok

CallKeys == {bitmap_call.keys[k] : k \in 1..Len(bitmap_call.keys)}

\* the stored bitmap of a key, empty when no block is stored
StoredBitmap(key) ==
    {d \in 0..(Cardinality(BlockNums) * BlockSize - 1) :
        \E b \in BlockNums : \E i \in fdb[key][b] : d = b * BlockSize + i}

\* the same keys in another order
Reorderings ==
    {p \in [1..Len(bitmap_call.keys) -> CallKeys] :
        \A key \in CallKeys :
            Cardinality({k \in DOMAIN p : p[k] = key})
              = Cardinality({k \in DOMAIN p : bitmap_call.keys[k] = key})}

\* C39: the call returns None when a requested key has no stored bitmap
\* and the intersection of the stored bitmaps when every key has one; the
\* result is the same for every order of the keys.
C39_IntersectionOrderIndependent ==
    IntersectionDone =>
        /\ (\E key \in CallKeys : StoredBitmap(key) = {}) =>
               bitmap_out = BitmapNone
        /\ (CallKeys # {} /\ \A key \in CallKeys : StoredBitmap(key) # {}) =>
               bitmap_out = BitmapSome({d \in StoredBitmap(bitmap_call.keys[1]) :
                                           \A key \in CallKeys : d \in StoredBitmap(key)})
        /\ \A p \in Reorderings :
               get_bitmaps_intersection(fdb, bitmap_call.failing, p) = bitmap_out

\* When every key has a stored bitmap the call returns their intersection,
\* whatever the order; when the first two have one, it returns None or an
\* empty bitmap for a missing one.
IntersectionOfStored ==
    IntersectionDone =>
        /\ (CallKeys # {} /\ \A key \in CallKeys : StoredBitmap(key) # {}) =>
               /\ bitmap_out = BitmapSome({d \in StoredBitmap(bitmap_call.keys[1]) :
                                              \A key \in CallKeys : d \in StoredBitmap(key)})
               /\ \A p \in Reorderings :
                      get_bitmaps_intersection(fdb, bitmap_call.failing, p) = bitmap_out
        /\ (\E key \in CallKeys : StoredBitmap(key) = {}) =>
               bitmap_out \in {BitmapNone, BitmapSome({})}

\* An empty bitmap is returned although a later key has no stored bitmap.
EmptyBeforeMissing ==
    /\ IntersectionDone
    /\ bitmap_out = BitmapSome({})
    /\ \E key \in CallKeys : StoredBitmap(key) = {}

====
